---- MODULE Spec2Model ----
(***************************************************************************)
(* gh-store: an object store kept in the issues, comments, reactions and   *)
(* labels of an issue tracker.  The model covers GitHubStore               *)
(* (core/store.py), IssueHandler (handlers/issue.py), AccessControl        *)
(* (core/access.py) and CanonicalStore (tools/canonicalize.py).            *)
(*                                                                         *)
(* handlers/comment.py (CommentHandler) and IssueHandler.find_aliases /    *)
(* create_alias are called by core/store.py but are not part of the source *)
(* tree; they are modelled from the written specification (sections 4.5    *)
(* and 4.6) and are marked as such where they are defined.                 *)
(***************************************************************************)
EXTENDS Integers, Sequences, FiniteSets, TLC

VARIABLES issues, lastOp, applyCount, unacked, probe

vars == <<issues, lastOp, applyCount, unacked, probe>>

----------------------------------------------------------------------------
(* Bounds of the model                                                     *)

\* the issues of a tracker on which create still makes one
MaxIssues == 2

\* the issues create_alias may add to these
MaxAliasIssues == 1

MaxComments == 5

\* the operations called on one store
MaxOps == 6

----------------------------------------------------------------------------
(* JSON values.  A value is a number or an object; an object is a function *)
(* from keys to values.  Both shapes are records with the same fields so   *)
(* that they can be compared.                                              *)

EmptyF == [k \in {} |-> 0]

Num(n) == [t |-> "num", n |-> n, s |-> "", f |-> EmptyF]

Str(s) == [t |-> "str", n |-> 0, s |-> s, f |-> EmptyF]

Obj(f) == [t |-> "obj", n |-> 0, s |-> "", f |-> f]

IsObj(v) == v.t = "obj"

K1 == Obj("k" :> Num(1))

K2 == Obj("k" :> Num(2))

K3 == Obj("k" :> Num(3))

J1 == Obj("j" :> Num(1))

Hacked == Obj("h" :> Num(1))

NoData == Obj(EmptyF)

\* json.dumps / json.loads of an issue body: the tracker stores text; text
\* that json.loads rejects is tagged "text".
Dumps(v) == [fmt |-> "json", v |-> v]

NotJson == [fmt |-> "text", v |-> NoData]

IsJson(s) == s.fmt = "json"

Loads(s) == s.v

----------------------------------------------------------------------------
(* Identities, labels                                                      *)

ObjectIds == {"a", "b"}

OwnerLogin == "owner"

Codeowners == {"dev"}

NoUser == "none"

Callers == {"owner", "mallory"}

\* A label name.  k is the name or its prefix, id the text after the prefix
\* when it is an object id, n the text after the prefix when it is a number.
Label(k, id, n) == [k |-> k, id |-> id, n |-> n]

BaseLabel == Label("stored-object", "", 0)

UidLabel(id) == Label("UID:", id, 0)

CanonicalLabel == Label("canonical-object", "", 0)

AliasLabel == Label("alias-object", "", 0)

DeprecatedLabel == Label("deprecated-object", "", 0)

ArchivedLabel == Label("archived", "", 0)

AliasToNum(n) == Label("ALIAS-TO:", "", n)

AliasToId(id) == Label("ALIAS-TO:", id, 0)

MergedInto(id) == Label("MERGED-INTO:", id, 0)

IsAliasTo(l) == l.k = "ALIAS-TO:"

\* int(label.name.split(":")[1]) succeeds exactly on a numeric suffix
ParsesAsInt(l) == l.n # 0

----------------------------------------------------------------------------
(* Comments                                                                *)

Processed == "+1"

InitialState == "rocket"

\* CommentPayload.to_dict(): _data, _meta.timestamp, _meta.update_mode,
\* _meta.system (written by the alias and deprecation comments only), type
Envelope(data, ts, mode, type, system) ==
    [data |-> data, ts |-> ts, mode |-> mode, type |-> type, system |-> system]

NoEnvelope == Envelope(NoData, 0, "append", "", FALSE)

\* the text of a comment: a serialized envelope, or text that is not JSON
CommentBody(env) == [fmt |-> "json", env |-> env]

MalformedBody == [fmt |-> "text", env |-> NoEnvelope]

Comment(id, author, body, reactions) ==
    [id |-> id, author |-> author, body |-> body, reactions |-> reactions]

----------------------------------------------------------------------------
(* The tracker                                                             *)

Issue(creator, state, labels, body, comments) ==
    [creator |-> creator, state |-> state, labels |-> labels,
     body |-> body, comments |-> comments]

Numbers == 1..Len(issues)

RECURSIVE SumLen(_, _)
SumLen(is, n) == IF n = 0 THEN 0 ELSE Len(is[n].comments) + SumLen(is, n - 1)

CommentCount == SumLen(issues, Len(issues))

\* the id the tracker gives to the next comment; also the clock that
\* datetime.now() reads when a comment is written
NextId == CommentCount + 1

Now == NextId

\* repo.get_issues(labels=..., state=...)
get_issues(labels, state) ==
    {n \in Numbers : /\ labels \subseteq issues[n].labels
                     /\ (state = "all" \/ issues[n].state = state)}

HasLabel(n, l) == l \in issues[n].labels

SeqToSet(s) == {s[i] : i \in 1..Len(s)}

CommentIds(n) == {issues[n].comments[i].id : i \in 1..Len(issues[n].comments)}

AllComments == UNION {SeqToSet(issues[n].comments) : n \in Numbers}

----------------------------------------------------------------------------
(* Inputs and results of the pure functions                                *)

\* probe holds the arguments and the result of a function that reads nothing
\* of the tracker; the store operations leave it alone
NoProbe == [kind |-> "none"]

----------------------------------------------------------------------------
(* Ghost record of the last operation                                      *)

\* op: the operation; id, n: the object id and issue number it was called
\* with; res: "ok" or the error raised; data: the data passed or returned;
\* tgt: the issue written to (or that would have been); flag: whether tgt was
\* open before the call (update) or a tracker call failed and was swallowed
\* (process); base, seq: the body a process cycle started from and the
\* updates it applied, in order; ideal: the body the cycle would have written
\* had no tracker call failed.
\* k counts the operations called so far.
Op(op, id, n, res, data) ==
    [op |-> op, id |-> id, n |-> n, res |-> res, data |-> data,
     tgt |-> 0, flag |-> FALSE, base |-> NoData, seq |-> << >>,
     ideal |-> NoData, k |-> lastOp.k + 1]

InitOp ==
    [op |-> "init", id |-> "", n |-> 0, res |-> "ok", data |-> NoData,
     tgt |-> 0, flag |-> FALSE, base |-> NoData, seq |-> << >>,
     ideal |-> NoData, k |-> 0]

----------------------------------------------------------------------------
(* AccessControl (core/access.py)                                          *)

\* AccessControl._is_authorized: the value the coroutine produces when it
\* is awaited
authorized_with(codeowners, username) ==
    /\ username # NoUser
    /\ (username = OwnerLogin \/ username \in codeowners)

_is_authorized(username) == authorized_with(Codeowners, username)

\* The CODEOWNERS files.  A file is a sequence of lines; a line is a comment
\* or a path followed by owner tokens: @user, @org/team, or a token with a
\* second slash, on which "org, team = owner.split('/')" raises ValueError.
UserToken(name) == [t |-> "user", name |-> name]

TeamToken(slug) == [t |-> "team", name |-> slug]

TwoSlashToken == [t |-> "two-slash", name |-> "org/team/extra"]

\* get_team_by_slug(team).get_members(); the lookup of an unknown team
\* raises inside the inner try block, which adds nothing
team_members(slug) == IF slug = "team" THEN {"tim"} ELSE {}

OwnersLine(owners) == [comment |-> FALSE, owners |-> owners]

CommentLine == [comment |-> TRUE, owners |-> << >>]

File(lines) == [exists |-> TRUE, lines |-> lines]

NoFile == [exists |-> FALSE, lines |-> << >>]

\* the loop over the owner tokens of one line; raised: the token loop left
\* by an exception
RECURSIVE parse_parts(_, _)
parse_parts(parts, codeowners) ==
    IF parts = << >> THEN [set |-> codeowners, raised |-> FALSE]
    ELSE IF Head(parts).t = "two-slash" THEN [set |-> codeowners, raised |-> TRUE]
    ELSE parse_parts(Tail(parts),
                     codeowners \cup (IF Head(parts).t = "team"
                                      THEN team_members(Head(parts).name)
                                      ELSE {Head(parts).name}))

\* the loop over the lines of one file
RECURSIVE parse_lines(_, _)
parse_lines(lines, codeowners) ==
    IF lines = << >> THEN [set |-> codeowners, raised |-> FALSE]
    ELSE IF Head(lines).comment THEN parse_lines(Tail(lines), codeowners)
    ELSE LET r == parse_parts(Head(lines).owners, codeowners)
         IN  IF r.raised THEN r ELSE parse_lines(Tail(lines), r.set)

\* the loop over the paths: a path without a file raises at get_contents, an
\* exception while a file is parsed is caught by the same except clause, and
\* both go on to the next path with the set filled so far; break is reached
\* only when a file was parsed to its end
RECURSIVE read_paths(_, _)
read_paths(files, codeowners) ==
    IF files = << >> THEN codeowners
    ELSE IF ~Head(files).exists THEN read_paths(Tail(files), codeowners)
    ELSE LET r == parse_lines(Head(files).lines, codeowners)
         IN  IF r.raised THEN read_paths(Tail(files), r.set) ELSE r.set

\* AccessControl._get_codeowners on the files at .github/CODEOWNERS,
\* docs/CODEOWNERS and CODEOWNERS, in that order
_get_codeowners(files) == read_paths(files, {})

\* AccessControl.validate_issue_creator, awaited
validate_issue_creator(issue) == _is_authorized(issue.creator)

\* AccessControl.validate_comment_author, awaited
validate_comment_author(comment) == _is_authorized(comment.author)

\* GitHubStore.process_updates calls the async def validate_issue_creator
\* without awaiting it: the call returns a coroutine object, and bool() of a
\* coroutine object is True whatever the coroutine would have returned.
creator_check_as_called(issue) == TRUE

----------------------------------------------------------------------------
(* IssueHandler (handlers/issue.py): reading                               *)

MaxRecursion == 4

Min(S) == CHOOSE x \in S : \A y \in S : x <= y

\* IssueHandler.get_object_id_from_labels; "" stands for the ValueError
get_object_id_from_labels(n) ==
    LET uids == {l \in issues[n].labels : l.k = "UID:"}
    IN  IF uids = {} THEN "" ELSE (CHOOSE l \in uids : TRUE).id

\* the first ALIAS-TO label whose suffix parses as a number, 0 when none does
alias_target(n) ==
    LET ls == {l \in issues[n].labels : IsAliasTo(l) /\ ParsesAsInt(l)}
    IN  IF ls = {} THEN 0 ELSE (CHOOSE l \in ls : TRUE).n

\* IssueHandler._get_version
_get_version(n) == Len(issues[n].comments) + 1

StoredObject(res, n, id, data, version) ==
    [res |-> res, n |-> n, object_id |-> id, data |-> data, version |-> version]

NotFound(id) == StoredObject("ObjectNotFound", 0, id, NoData, 0)

\* the issue IssueHandler.get_object reads for object_id before it looks at
\* aliasing: closed issues first, any state otherwise; the canonical one of
\* several, else the one with the smallest number.  0 when there is none.
get_object_issue(object_id) ==
    LET closed == get_issues({BaseLabel, UidLabel(object_id)}, "closed")
        found  == IF closed # {} THEN closed
                  ELSE get_issues({BaseLabel, UidLabel(object_id)}, "all")
        canon  == {n \in found : HasLabel(n, CanonicalLabel)}
    IN  IF found = {} THEN 0
        ELSE IF Cardinality(found) > 1 /\ canon # {} THEN Min(canon)
        ELSE Min(found)

\* IssueHandler.get_object.  fuel is the depth left on the interpreter's
\* stack: the redirection through an alias is a recursive call inside a
\* try block, so running out of stack is caught like any other exception
\* and the alias issue itself is returned.
RECURSIVE get_object(_, _)
get_object(object_id, fuel) ==
    LET n  == get_object_issue(object_id)
        own == StoredObject("ok", n, object_id, Loads(issues[n].body), _get_version(n))
    IN  IF n = 0 THEN NotFound(object_id)
        ELSE IF HasLabel(n, AliasLabel) /\ alias_target(n) # 0
        THEN LET c == alias_target(n)
             IN  IF c \notin Numbers \/ get_object_id_from_labels(c) = "" \/ fuel = 0
                 THEN own
                 ELSE LET r == get_object(get_object_id_from_labels(c), fuel - 1)
                      IN  IF r.res = "ok" THEN r ELSE own
        ELSE own

\* GitHubStore.get
get(object_id) == get_object(object_id, MaxRecursion)

\* IssueHandler.get_object_by_number; res "ValueError" when the issue read
\* has no UID label
RECURSIVE get_object_by_number(_, _)
get_object_by_number(n, fuel) ==
    LET own == IF get_object_id_from_labels(n) = ""
               THEN StoredObject("ValueError", n, "", NoData, 0)
               ELSE StoredObject("ok", n, get_object_id_from_labels(n),
                                 Loads(issues[n].body), _get_version(n))
    IN  IF HasLabel(n, AliasLabel) /\ alias_target(n) # 0
           /\ alias_target(n) \in Numbers /\ fuel > 0
        THEN LET r == get_object_by_number(alias_target(n), fuel - 1)
             IN  IF r.res = "ok" THEN r ELSE own
        ELSE own

----------------------------------------------------------------------------
(* IssueHandler.create_object / GitHubStore.create                         *)

create_refused(object_id) ==
    LET existing == get_issues({BaseLabel, UidLabel(object_id)}, "all")
        active   == {n \in existing : ~HasLabel(n, DeprecatedLabel)}
        canonical_issues == {n \in active : HasLabel(n, CanonicalLabel)}
    IN  canonical_issues # {}

create_issue(object_id, data, caller) ==
    Issue(caller, "closed", {BaseLabel, UidLabel(object_id)}, Dumps(data),
          << Comment(NextId, caller,
                     CommentBody(Envelope(data, Now, "append", "initial_state", FALSE)),
                     {Processed, InitialState}) >>)

Create(object_id, data, caller) ==
    IF create_refused(object_id)
    THEN /\ lastOp' = Op("create", object_id, 0, "DuplicateUid", NoData)
         /\ UNCHANGED <<issues, applyCount, unacked>>
    ELSE /\ Len(issues) < MaxIssues
         /\ CommentCount < MaxComments
         /\ issues' = Append(issues, create_issue(object_id, data, caller))
         /\ lastOp' = Op("create", object_id, Len(issues) + 1, "ok", data)
         /\ UNCHANGED <<applyCount, unacked>>

----------------------------------------------------------------------------
(* IssueHandler.update_object / GitHubStore.update                         *)

\* the issues update_object may post the envelope on.  issues[0] and
\* canonical_issues[0] are the first entries of a tracker listing whose
\* order the code does not fix, so every listed issue can be the one.
\* 0 stands for the exception of repo.get_issue on a missing number.
update_object_targets(object_id) ==
    LET found == get_issues({BaseLabel, UidLabel(object_id)}, "all")
        canonical_issues == {n \in found : HasLabel(n, CanonicalLabel)}
        alias_issues == {n \in found : HasLabel(n, AliasLabel)}
    IN  IF canonical_issues # {} THEN canonical_issues
        ELSE IF alias_issues # {}
        THEN UNION {IF alias_target(a) = 0 THEN found
                    ELSE IF alias_target(a) \in Numbers THEN {alias_target(a)}
                    ELSE {0} : a \in alias_issues}
        ELSE found

update_payload(changes, caller) ==
    Comment(NextId, caller,
            CommentBody(Envelope(changes, Now, "append", "", FALSE)), {})

post_comment(is, n, c) == [is EXCEPT ![n].comments = Append(@, c)]

ChangesOf(caller) == IF _is_authorized(caller) THEN {K2} ELSE {Hacked}

Update(object_id, changes, caller) ==
    IF get_issues({BaseLabel, UidLabel(object_id)}, "open") # {}
    THEN /\ \E t \in update_object_targets(object_id) \cup {0} :
               /\ t = 0 => update_object_targets(object_id) \subseteq {0}
               /\ lastOp' = [Op("update", object_id, 0, "ConcurrentUpdate", NoData)
                               EXCEPT !.tgt = t,
                                      !.flag = (t # 0 /\ issues[t].state = "open")]
         /\ UNCHANGED <<issues, applyCount, unacked>>
    ELSE IF get(object_id).res # "ok"
    THEN /\ lastOp' = Op("update", object_id, 0, "ObjectNotFound", NoData)
         /\ UNCHANGED <<issues, applyCount, unacked>>
    ELSE \E t \in update_object_targets(object_id) :
           IF t = 0
           THEN /\ lastOp' = Op("update", object_id, 0, "UnknownObject", NoData)
                /\ UNCHANGED <<issues, applyCount, unacked>>
           ELSE /\ CommentCount < MaxComments
                /\ issues' = [post_comment(issues, t, update_payload(changes, caller))
                                EXCEPT ![t].state = "open"]
                /\ lastOp' = [Op("update", object_id, t, "ok", changes)
                                EXCEPT !.tgt = t,
                                       !.flag = (issues[t].state = "open")]
                /\ UNCHANGED <<applyCount, unacked>>

----------------------------------------------------------------------------
(* IssueHandler.delete_object / GitHubStore.delete, GitHubStore.list_all    *)

\* the label whose whole name is the given text: the text "UID:" followed by
\* an object id names that object's identity label
Named(name) ==
    IF \E id \in ObjectIds : name = "UID:" \o id
    THEN UidLabel(CHOOSE id \in ObjectIds : name = "UID:" \o id)
    ELSE Label(name, "", 0)

\* IssueHandler.delete_object: the listing asks for the base label and a
\* label named object_id, without the UID prefix; the issue found gets the
\* labels archived, the base label and the label named object_id
Delete(object_id) ==
    LET found == get_issues({BaseLabel, Named(object_id)}, "all")
    IN  IF found = {}
        THEN /\ lastOp' = Op("delete", object_id, 0, "ObjectNotFound", NoData)
             /\ UNCHANGED <<issues, applyCount, unacked>>
        ELSE \E issue \in found :
               /\ issues' = [issues EXCEPT ![issue].state = "closed",
                                           ![issue].labels = {ArchivedLabel, BaseLabel,
                                                              Named(object_id)}]
               /\ lastOp' = [Op("delete", object_id, issue, "ok", NoData) EXCEPT !.tgt = issue]
               /\ UNCHANGED <<applyCount, unacked>>

\* GitHubStore.list_all: the issues whose objects are returned
listed_issues ==
    {n \in get_issues({BaseLabel}, "closed") :
        /\ issues[n].labels \cap {ArchivedLabel, AliasLabel, DeprecatedLabel} = {}
        /\ get_object_id_from_labels(n) # ""}

\* GitHubStore.list_all: the keys of the dictionary returned
list_all == {get_object_id_from_labels(n) : n \in listed_issues}

----------------------------------------------------------------------------
(* A tracker user writes a comment on an issue directly                    *)

ExternalBodies(author) ==
    IF _is_authorized(author)
    THEN {CommentBody(Envelope(K3, 0, "append", "", FALSE)), MalformedBody}
    ELSE {CommentBody(Envelope(Hacked, 0, "append", "", FALSE))}

ExternalComment(n, author, body) ==
    /\ CommentCount < MaxComments
    /\ issues' = post_comment(issues, n, Comment(NextId, author, body, {}))
    /\ lastOp' = Op("comment", "", n, "ok", NoData)
    /\ UNCHANGED <<applyCount, unacked>>

----------------------------------------------------------------------------
(* CanonicalStore._deep_merge (tools/canonicalize.py)                      *)

\* a merge that adds the numbers under a key instead of replacing them
_deep_merge_counting(base, update) ==
    [key \in DOMAIN base \cup DOMAIN update |->
        IF key \in DOMAIN update
        THEN IF key \in DOMAIN base /\ base[key].t = "num" /\ update[key].t = "num"
             THEN Num(base[key].n + update[key].n)
             ELSE update[key]
        ELSE base[key]]

RECURSIVE _deep_merge(_, _)
_deep_merge(base, update) ==
    [key \in DOMAIN base \cup DOMAIN update |->
        IF key \in DOMAIN update
        THEN IF key \in DOMAIN base /\ IsObj(base[key]) /\ IsObj(update[key])
             THEN Obj(_deep_merge(base[key].f, update[key].f))
             ELSE update[key]
        ELSE base[key]]

----------------------------------------------------------------------------
(* CommentHandler (handlers/comment.py), modelled from the specification,  *)
(* section 4.5 steps 3 to 6 and 8                                          *)

SystemTypes == {"system_alias", "system_alias_reference", "system_deprecation",
                "system_reference", "system_relationship"}

\* types.Update, with the update mode of the envelope
UpdateRec(comment_id, timestamp, changes, mode) ==
    [comment_id |-> comment_id, timestamp |-> timestamp,
     changes |-> changes, mode |-> mode]

\* step 4: the comments a cycle may consume
is_unprocessed_update(c) ==
    /\ Processed \notin c.reactions
    /\ c.body.fmt = "json"
    /\ c.body.env.type # "initial_state"
    /\ c.body.env.type \notin SystemTypes
    /\ ~c.body.env.system
    /\ validate_comment_author(c)

\* a stable sort by timestamp, as list.sort(key=lambda u: u.timestamp)
RECURSIVE InsertByTs(_, _)
InsertByTs(sorted, u) ==
    IF sorted = << >> THEN << u >>
    ELSE IF sorted[Len(sorted)].timestamp <= u.timestamp THEN Append(sorted, u)
    ELSE Append(InsertByTs(SubSeq(sorted, 1, Len(sorted) - 1), u), sorted[Len(sorted)])

RECURSIVE StableSortByTs(_)
StableSortByTs(us) ==
    IF us = << >> THEN << >>
    ELSE InsertByTs(StableSortByTs(SubSeq(us, 1, Len(us) - 1)), us[Len(us)])

RECURSIVE to_updates(_)
to_updates(cs) ==
    IF cs = << >> THEN << >>
    ELSE LET c == Head(cs)
         IN  (IF is_unprocessed_update(c)
              THEN << UpdateRec(c.id, c.body.env.ts, c.body.env.data, c.body.env.mode) >>
              ELSE << >>) \o to_updates(Tail(cs))

\* CommentHandler.get_unprocessed_updates
get_unprocessed_updates(n) == StableSortByTs(to_updates(issues[n].comments))

\* CommentHandler.apply_update, on the data of the object
apply_update(data, update) ==
    IF update.mode = "replace" THEN update.changes
    ELSE Obj(_deep_merge(data.f, update.changes.f))

RECURSIVE apply_all(_, _)
apply_all(data, us) ==
    IF us = << >> THEN data ELSE apply_all(apply_update(data, Head(us)), Tail(us))

\* CommentHandler.mark_processed on the comments of one issue
mark_processed(is, n, ids) ==
    [is EXCEPT ![n].comments =
        [i \in 1..Len(@) |->
            IF @[i].id \in ids THEN [@[i] EXCEPT !.reactions = @ \cup {Processed}]
            ELSE @[i]]]

\* IssueHandler.find_aliases (specification, section 4.6)
find_aliases(n) == get_issues({AliasToNum(n)}, "all")

----------------------------------------------------------------------------
(* GitHubStore.process_updates (core/store.py)                             *)

\* the issue a call for issue n ends up processing: an issue that is not
\* labelled canonical-object and carries a numeric ALIAS-TO label redirects.
\* 0: repo.get_issue raised; -1: AccessDeniedError; -2: the recursion ran out
\* of stack (RecursionError, which the except clause of the redirection does
\* not catch).
RECURSIVE process_target(_, _)
process_target(n, fuel) ==
    IF n \notin Numbers THEN 0
    ELSE IF ~creator_check_as_called(issues[n]) THEN -1
    ELSE IF ~HasLabel(n, CanonicalLabel) /\ alias_target(n) # 0
    THEN IF fuel = 0 THEN -2 ELSE process_target(alias_target(n), fuel - 1)
    ELSE n

\* the listings of a set of issues, in every order
Orders(S) == {o \in [1..Cardinality(S) -> S] : \A i, j \in DOMAIN o : o[i] = o[j] => i = j}

\* the alias loop of the collection step: an alias whose creator check fails
\* or whose collection raises contributes nothing
RECURSIVE collect_aliases(_, _)
collect_aliases(order, cfail) ==
    IF order = << >> THEN << >>
    ELSE (IF creator_check_as_called(issues[Head(order)]) /\ Head(order) \notin cfail
          THEN get_unprocessed_updates(Head(order)) ELSE << >>)
         \o collect_aliases(Tail(order), cfail)

\* the collected updates left in the order of collection
resort_skipped(updates) == updates

\* updates.sort(key=lambda u: u.timestamp), done on a canonical issue only
resort_all_updates(updates) == StableSortByTs(updates)

collect_updates(m, order, cfail) ==
    IF HasLabel(m, CanonicalLabel)
    THEN resort_all_updates(get_unprocessed_updates(m) \o collect_aliases(order, cfail))
    ELSE get_unprocessed_updates(m)

\* the body written without closing the issue
update_issue_body_left_open(is, n, data) == [is EXCEPT ![n].body = Dumps(data)]

\* IssueHandler.update_issue_body
update_issue_body(is, n, data) ==
    [is EXCEPT ![n].body = Dumps(data), ![n].state = "closed"]

UpdateIds(us) == {us[i].comment_id : i \in 1..Len(us)}

\* every comment of issue n, whether or not it was collected
on_issue_every_comment(n, us) == CommentIds(n)

\* the comments of the updates that sit on issue n
on_issue(n, us) == UpdateIds(us) \cap CommentIds(n)

\* the alias issues left without acknowledgement
mark_aliases_skipped(is, as, us) == is

RECURSIVE mark_aliases(_, _, _)
mark_aliases(is, as, us) ==
    IF as = {} THEN is
    ELSE LET a == CHOOSE x \in as : TRUE
         IN  mark_aliases(mark_processed(is, a, on_issue(a, us)), as \ {a}, us)

\* the alias issues a call for issue n collects from
ProcessAliases(n) ==
    LET m == process_target(n, MaxRecursion)
    IN  IF m > 0 /\ HasLabel(m, CanonicalLabel) THEN find_aliases(m) ELSE {}

\* the alias issues of a call on which a tracker call may raise
Failing(n) == IF ProcessAliases(n) = {} THEN {{}} ELSE SUBSET ProcessAliases(n)

Bump(count, ids) == [c \in DOMAIN count |-> IF c \in ids /\ count[c] < 2 THEN count[c] + 1 ELSE count[c]]

\* the outcome of a call of process_updates: the result or the error, the
\* issue worked on, the tracker it leaves.  ideal is the body the cycle would
\* write if no tracker call failed; unack are the applied comments it leaves
\* without the processed reaction.
NoCycle(res, m) ==
    [res |-> res, tgt |-> m, data |-> NoData, issues |-> issues,
     base |-> NoData, seq |-> << >>, ideal |-> NoData, unack |-> {}]

\* process_updates from the collection step on, for the issue m it settled on
cycle_on(m, order, cfail, mfail) ==
    LET is_canonical == HasLabel(m, CanonicalLabel)
        alias_issues == IF is_canonical THEN find_aliases(m) ELSE {}
        updates == collect_updates(m, order, cfail)
        obj == get_object_by_number(m, MaxRecursion)
        final == apply_all(obj.data, updates)
    IN  IF obj.res # "ok"
        THEN NoCycle(obj.res, m)
        ELSE [res |-> "ok", tgt |-> m, data |-> final,
              issues |-> mark_aliases(
                            mark_processed(update_issue_body(issues, m, final),
                                           m, on_issue(m, updates)),
                            alias_issues \ mfail, updates),
              base |-> Loads(issues[m].body),
              seq |-> updates,
              ideal |-> apply_all(obj.data, collect_updates(m, order, {})),
              unack |-> UNION {on_issue(a, updates) : a \in alias_issues \cap mfail}]

\* GitHubStore.process_updates.  The redirection is a recursive call inside
\* try ... except (ValueError, IndexError): a ValueError of the inner call (an
\* issue without a UID label) is swallowed and the issue itself is processed;
\* running out of stack is not caught.
RECURSIVE process_updates(_, _, _, _, _)
process_updates(n, fuel, order, cfail, mfail) ==
    IF n \notin Numbers THEN NoCycle("UnknownObject", 0)
    ELSE IF ~creator_check_as_called(issues[n]) THEN NoCycle("AccessDenied", 0)
    ELSE IF ~HasLabel(n, CanonicalLabel) /\ alias_target(n) # 0
    THEN IF fuel = 0 THEN NoCycle("RecursionError", 0)
         ELSE LET r == process_updates(alias_target(n), fuel - 1, order, cfail, mfail)
              IN  IF r.res = "ValueError" THEN cycle_on(n, order, cfail, mfail) ELSE r
    ELSE cycle_on(n, order, cfail, mfail)

process_cycle(n, order, cfail, mfail) ==
    process_updates(n, MaxRecursion, order, cfail, mfail)

Process(n, order, cfail, mfail) ==
    LET c == process_cycle(n, order, cfail, mfail) IN
    /\ issues' = c.issues
    /\ applyCount' = Bump(applyCount, UpdateIds(c.seq))
    /\ unacked' = unacked \cup c.unack
    /\ lastOp' = [Op("process", "", n, c.res, c.data)
                    EXCEPT !.tgt = c.tgt,
                           !.flag = (c.res = "ok" /\ cfail \cup mfail # {}),
                           !.base = c.base, !.seq = c.seq, !.ideal = c.ideal]

----------------------------------------------------------------------------
(* IssueHandler.create_alias / GitHubStore.create_alias, modelled from the *)
(* specification, section 4.6                                              *)

alias_issue(canonical_id, c, alias_id, caller) ==
    Issue(caller, "closed",
          {BaseLabel, UidLabel(alias_id), AliasLabel, AliasToNum(c)},
          Dumps(Obj("alias_to" :> Str(canonical_id))),
          << Comment(NextId, caller,
                     CommentBody(Envelope(Obj("alias_to" :> Str(canonical_id)), Now,
                                          "append", "system_alias", TRUE)), {}) >>)

alias_reference(alias_id, caller) ==
    Comment(NextId + 1, caller,
            CommentBody(Envelope(Obj("aliased_by" :> Str(alias_id)), Now,
                                 "append", "system_alias_reference", TRUE)), {})

CreateAlias(canonical_id, alias_id, caller) ==
    LET c == get_object_issue(canonical_id)
        taken == get_issues({BaseLabel, UidLabel(alias_id)}, "all")
    IN  IF c = 0
        THEN /\ lastOp' = Op("create_alias", alias_id, 0, "ObjectNotFound", NoData)
             /\ UNCHANGED <<issues, applyCount, unacked>>
        ELSE IF taken # {}
        THEN /\ lastOp' = Op("create_alias", alias_id, 0,
                             IF \E n \in taken : HasLabel(n, AliasLabel)
                             THEN "AliasedObjectError" ELSE "CanonicalObjectError", NoData)
             /\ UNCHANGED <<issues, applyCount, unacked>>
        ELSE /\ Len(issues) < MaxIssues + MaxAliasIssues
             /\ CommentCount + 2 <= MaxComments
             /\ issues' = Append(
                    [post_comment(issues, c, alias_reference(alias_id, caller))
                        EXCEPT ![c].labels = @ \cup {CanonicalLabel}],
                    alias_issue(canonical_id, c, alias_id, caller))
             /\ lastOp' = [Op("create_alias", alias_id, Len(issues) + 1, "ok", NoData)
                             EXCEPT !.tgt = c]
             /\ UNCHANGED <<applyCount, unacked>>

----------------------------------------------------------------------------
(* CanonicalStore (tools/canonicalize.py)                                  *)

MaxAliasDepth == 5

\* repo.get_issues on a given tracker content
issues_with(is, labels) == {n \in 1..Len(is) : labels \subseteq is[n].labels}

\* the text after the prefix of a label
Suffix(l) == IF l.n # 0 THEN ToString(l.n) ELSE l.id

\* CanonicalStore._get_object_id; "" stands for None
_get_object_id(is, n) ==
    LET uids == {l \in is[n].labels : l.k = "UID:"}
    IN  IF uids = {} THEN "" ELSE (CHOOSE l \in uids : TRUE).id

\* a resolution that stops one call later: max_depth < 0 in place of <= 0
RECURSIVE resolve_one_hop_more(_, _, _)
resolve_one_hop_more(is, object_id, max_depth) ==
    LET alias_issues == {n \in 1..Len(is) :
                            /\ [k |-> "UID:", id |-> object_id, n |-> 0] \in is[n].labels
                            /\ \E l \in is[n].labels : l.k = "ALIAS-TO:"}
        first == CHOOSE n \in alias_issues : \A o \in alias_issues : n <= o
        l1 == CHOOSE l \in is[first].labels : l.k = "ALIAS-TO:"
        canonical_id == IF l1.n # 0 THEN ToString(l1.n) ELSE l1.id
    IN  IF max_depth < 0 THEN object_id
        ELSE IF alias_issues = {} THEN object_id
        ELSE IF canonical_id = object_id THEN object_id
        ELSE resolve_one_hop_more(is, canonical_id, max_depth - 1)

\* CanonicalStore.resolve_canonical_object_id.  The label query
\* "ALIAS-TO:*" is taken to match every ALIAS-TO label, as the tests and the
\* specification take it.
RECURSIVE resolve_canonical_object_id(_, _, _)
resolve_canonical_object_id(is, object_id, max_depth) ==
    LET alias_issues == {n \in issues_with(is, {UidLabel(object_id)}) :
                            \E l \in is[n].labels : IsAliasTo(l)}
        first == Min(alias_issues)
        canonical_id == Suffix(CHOOSE l \in is[first].labels : IsAliasTo(l))
    IN  IF max_depth <= 0 THEN object_id
        ELSE IF alias_issues = {} THEN object_id
        ELSE IF canonical_id = object_id THEN object_id
        ELSE resolve_canonical_object_id(is, canonical_id, max_depth - 1)

\* CanonicalStore._extract_comment_metadata, for the comments that parse
RECURSIVE comment_metadata(_, _)
comment_metadata(cs, n) ==
    IF cs = << >> THEN << >>
    ELSE (IF Head(cs).body.fmt = "json"
          THEN << [data |-> Head(cs).body.env, timestamp |-> Head(cs).body.env.ts,
                   id |-> Head(cs).id, source_issue |-> n] >>
          ELSE << >>) \o comment_metadata(Tail(cs), n)

\* CanonicalStore.collect_all_comments.  ci is the first issue of the
\* listing for UID:<canonical id>, al the first issue of the listing for
\* ALIAS-TO:<canonical id> that has a UID label, 0 when there is none: the
\* return statement sits inside the loop over the alias issues, so the
\* function returns after the first such alias and returns None without one.
collect_all_comments(is, ci, al) ==
    StableSortByTs(comment_metadata(is[ci].comments, ci)
                   \o comment_metadata(is[al].comments, al))

RECURSIVE merge_comments(_, _)
merge_comments(current_state, cs) ==
    IF cs = << >> THEN current_state
    ELSE LET d == Head(cs).data
         IN  merge_comments(
                IF d.type = "initial_state" \/ d.type \in SystemTypes THEN current_state
                ELSE IF d.mode = "append"
                     THEN Obj(_deep_merge(current_state.f, d.data.f))
                ELSE IF d.mode = "replace" THEN d.data
                ELSE current_state,
                Tail(cs))

\* CanonicalStore.process_with_virtual_merge, on the canonical id it resolved
process_with_virtual_merge(is, ci, al) ==
    IF ci = 0 THEN [res |-> "ObjectNotFound", is |-> is, data |-> NoData]
    ELSE IF al = 0 THEN [res |-> "TypeError", is |-> is, data |-> NoData]
    ELSE LET all_comments == collect_all_comments(is, ci, al)
             inits == {i \in 1..Len(all_comments) :
                          all_comments[i].data.type = "initial_state"}
             initial_state == IF inits # {} THEN all_comments[Min(inits)].data.data
                              ELSE Loads(is[ci].body)
             current_state == merge_comments(initial_state, all_comments)
         IN  [res |-> "ok", is |-> [is EXCEPT ![ci].body = Dumps(current_state)],
              data |-> current_state]

\* the choices a tracker listing leaves to process_with_virtual_merge
CanonicalChoices(is, cid) ==
    IF issues_with(is, {UidLabel(cid)}) = {} THEN {0}
    ELSE issues_with(is, {UidLabel(cid)})

AliasChoices(is, cid) ==
    LET with_uid == {n \in issues_with(is, {AliasToId(cid)}) : _get_object_id(is, n) # ""}
    IN  IF with_uid = {} THEN {0} ELSE with_uid

\* CanonicalStore.get_object(object_id, canonicalize=True)
CanonicalGet(object_id) ==
    LET cid == resolve_canonical_object_id(issues,
                  resolve_canonical_object_id(issues, object_id, MaxAliasDepth),
                  MaxAliasDepth)
    IN  \E ci \in CanonicalChoices(issues, cid), al \in AliasChoices(issues, cid) :
          LET r == process_with_virtual_merge(issues, ci, al)
          IN  /\ issues' = r.is
              /\ lastOp' = [Op("canonical_get", object_id, ci, r.res, r.data)
                              EXCEPT !.tgt = ci]
              /\ UNCHANGED <<applyCount, unacked>>

system_comment(id, caller, data, type) ==
    Comment(id, caller, CommentBody(Envelope(data, Now, "append", type, TRUE)), {})

\* CanonicalStore.create_alias
CanonicalCreateAlias(source_id, target_id, caller) ==
    LET source_issues == issues_with(issues, {UidLabel(source_id)})
        target_issues == issues_with(issues, {UidLabel(target_id)})
    IN  IF source_issues = {} \/ target_issues = {}
        THEN /\ lastOp' = Op("canonical_create_alias", source_id, 0, "ObjectNotFound", NoData)
             /\ UNCHANGED <<issues, applyCount, unacked>>
        ELSE \E source_issue \in source_issues, target_issue \in target_issues :
               IF \E l \in issues[source_issue].labels : IsAliasTo(l)
               THEN /\ lastOp' = Op("canonical_create_alias", source_id, source_issue,
                                    "ValueError", NoData)
                    /\ UNCHANGED <<issues, applyCount, unacked>>
               ELSE /\ CommentCount + 2 <= MaxComments
                    /\ issues' =
                         post_comment(
                           post_comment(
                             [issues EXCEPT ![source_issue].labels = @ \cup {AliasToId(target_id)}],
                             source_issue,
                             system_comment(NextId, caller, Obj("alias_to" :> Str(target_id)),
                                            "system_alias")),
                           target_issue,
                           system_comment(NextId + 1, caller, Obj("aliased_by" :> Str(source_id)),
                                          "system_alias_reference"))
                    /\ lastOp' = [Op("canonical_create_alias", source_id, source_issue, "ok", NoData)
                                    EXCEPT !.tgt = target_issue]
                    /\ UNCHANGED <<applyCount, unacked>>

\* CanonicalStore.update_object: the comment goes to the first issue listed
\* for UID:<object_id>.  Without such an issue resolve_canonical_object_id
\* returns object_id itself and the second listing is empty as well.  The
\* object returned is read with canonicalize=False after the writes.
CanonicalUpdate(object_id, changes, caller) ==
    LET alias_issues == issues_with(issues, {UidLabel(object_id)})
        canonical_id == resolve_canonical_object_id(issues, object_id, MaxAliasDepth)
        canonical_issues == issues_with(issues, {UidLabel(canonical_id)})
    IN  IF alias_issues = {} /\ canonical_issues = {}
        THEN /\ lastOp' = Op("canonical_update", object_id, 0, "ObjectNotFound", NoData)
             /\ UNCHANGED <<issues, applyCount, unacked>>
        ELSE \E issue \in (IF alias_issues = {} THEN canonical_issues ELSE alias_issues) :
               /\ CommentCount < MaxComments
               /\ issues' = [post_comment(issues, issue, update_payload(changes, caller))
                               EXCEPT ![issue].state = "open"]
               /\ \E read \in alias_issues :
                     lastOp' = [Op("canonical_update", object_id, issue,
                                   IF IsJson(issues[read].body) THEN "ok" ELSE "JSONDecodeError",
                                   Loads(issues[read].body))
                                  EXCEPT !.tgt = issue,
                                         !.flag = (issues[issue].state = "open")]
               /\ UNCHANGED <<applyCount, unacked>>

\* the label and comment writes of CanonicalStore.deprecate_object
deprecate_writes(object_id, target_id, source_issue, target_issue, caller) ==
    post_comment(
      post_comment(
        [issues EXCEPT ![source_issue].labels =
            (@ \ {UidLabel(object_id)}) \cup {DeprecatedLabel, MergedInto(target_id)}],
        source_issue,
        system_comment(NextId, caller, Obj("status" :> Str("deprecated")), "system_deprecation")),
      target_issue,
      system_comment(NextId + 1, caller, Obj("status" :> Str("merged_reference")),
                     "system_reference"))

\* CanonicalStore.deprecate_object: the writes, then the virtual merge of the
\* target, whose exception leaves the writes in place
Deprecate(object_id, target_id, caller) ==
    LET source_issues == issues_with(issues, {UidLabel(object_id)})
        target_issues == issues_with(issues, {UidLabel(target_id)})
    IN  IF source_issues = {} \/ target_issues = {}
        THEN /\ lastOp' = Op("deprecate", object_id, 0, "ObjectNotFound", NoData)
             /\ UNCHANGED <<issues, applyCount, unacked>>
        ELSE \E source_issue \in source_issues, target_issue \in target_issues :
               LET written == deprecate_writes(object_id, target_id, source_issue,
                                               target_issue, caller)
                   cid == resolve_canonical_object_id(written,
                             resolve_canonical_object_id(written, target_id, MaxAliasDepth),
                             MaxAliasDepth)
               IN  /\ CommentCount + 2 <= MaxComments
                   /\ \E ci \in CanonicalChoices(written, cid), al \in AliasChoices(written, cid) :
                        LET r == process_with_virtual_merge(written, ci, al)
                        IN  /\ issues' = r.is
                            /\ lastOp' = [Op("deprecate", object_id, source_issue, r.res, r.data)
                                            EXCEPT !.tgt = target_issue]
                   /\ UNCHANGED <<applyCount, unacked>>

\* CanonicalStore.deduplicate_object without a caller's choice: every issue
\* listed for UID:<object_id> yields object_id as its id, so the loop over the
\* duplicates skips each of them as the canonical one
Deduplicate(object_id) ==
    LET found == issues_with(issues, {UidLabel(object_id)})
        canonical_id == _get_object_id(issues, Min(found))
        losers == {n \in found : _get_object_id(issues, n) # canonical_id}
    IN  /\ lastOp' = [Op("deduplicate", object_id,
                         IF Cardinality(found) <= 1 THEN 0 ELSE Cardinality(losers),
                         "ok", NoData)
                        EXCEPT !.flag = (Cardinality(found) > 1)]
        /\ Cardinality(found) > 1 => losers = {}
        /\ UNCHANGED <<issues, applyCount, unacked>>

----------------------------------------------------------------------------
(* The store behind one repository                                         *)

\* the data a caller creates an object with, and the changes it sends
DataOf(caller) == IF _is_authorized(caller) THEN {K1} ELSE {J1}

Init ==
    /\ issues = << >>
    /\ lastOp = InitOp
    /\ applyCount = [c \in 1..MaxComments |-> 0]
    /\ unacked = {}
    /\ probe = NoProbe

Next ==
    \/ lastOp.k < MaxOps /\ UNCHANGED probe /\ \E id \in ObjectIds, u \in Callers : \E d \in DataOf(u) : Create(id, d, u)
    \/ lastOp.k < MaxOps /\ UNCHANGED probe /\ \E id \in ObjectIds, u \in Callers : \E ch \in ChangesOf(u) : Update(id, ch, u)
    \/ lastOp.k < MaxOps /\ UNCHANGED probe /\ \E n \in Numbers : \E b \in ExternalBodies(OwnerLogin) :
          ExternalComment(n, OwnerLogin, b)
    \/ lastOp.k < MaxOps /\ UNCHANGED probe /\ \E n \in Numbers : \E cfail, mfail \in Failing(n) :
          \E order \in Orders(ProcessAliases(n)) : Process(n, order, cfail, mfail)
    \/ lastOp.k < MaxOps /\ UNCHANGED probe /\ \E c, a \in ObjectIds : CreateAlias(c, a, OwnerLogin)
    \/ lastOp.k < MaxOps /\ UNCHANGED probe /\ \E id \in ObjectIds : CanonicalGet(id)
    \/ lastOp.k < MaxOps /\ UNCHANGED probe /\ \E src, tgt \in ObjectIds : CanonicalCreateAlias(src, tgt, OwnerLogin)
    \/ lastOp.k < MaxOps /\ UNCHANGED probe /\ \E src, tgt \in ObjectIds : Deprecate(src, tgt, OwnerLogin)
    \/ lastOp.k < MaxOps /\ UNCHANGED probe /\ \E id \in ObjectIds : \E ch \in ChangesOf(OwnerLogin) :
          CanonicalUpdate(id, ch, OwnerLogin)
    \/ lastOp.k < MaxOps /\ UNCHANGED probe /\ \E id \in ObjectIds : Deduplicate(id)
    \/ lastOp.k < MaxOps /\ UNCHANGED probe /\ \E id \in ObjectIds : Delete(id)

Spec == Init /\ [][Next]_vars

----------------------------------------------------------------------------
(* Replaying envelopes on a state: the loop of process_with_virtual_merge  *)
(* applied to a base state B, a sequence S of envelopes and a sequence dup *)
(* of envelopes drawn from S, one envelope at a step                       *)

MaxLen == 3

MaxDup == 2

MergeBases == {NoData, K1, Obj("k" :> J1)}

MergeData == {K1, K2, J1, Obj("k" :> J1), Obj("k" :> K2)}

MergeEnvelopes ==
    {Envelope(d, 0, m, "", FALSE) : d \in MergeData, m \in {"append", "replace"}}

SeqsUpTo(S, n) == UNION {[1..k -> S] : k \in 0..n}

\* i: the envelopes of S \o dup applied so far; state: the state reached;
\* once: the state after S alone
MergeProbe(B, S, dup) ==
    [kind |-> "merge", B |-> B, S |-> S, dup |-> dup, i |-> 0, state |-> B, once |-> B]

InitMerge ==
    /\ issues = << >>
    /\ lastOp = InitOp
    /\ applyCount = [c \in 1..MaxComments |-> 0]
    /\ unacked = {}
    /\ \E B \in MergeBases, S \in SeqsUpTo(MergeEnvelopes, MaxLen) :
          \E dup \in SeqsUpTo(SeqToSet(S), MaxDup) : probe = MergeProbe(B, S, dup)

MergeStep ==
    /\ probe.i < Len(probe.S) + Len(probe.dup)
    /\ LET all == probe.S \o probe.dup
           next == merge_comments(probe.state, << [data |-> all[probe.i + 1]] >>)
       IN  probe' = [probe EXCEPT !.i = @ + 1, !.state = next,
                                  !.once = IF probe.i + 1 = Len(probe.S) THEN next ELSE @]
    /\ UNCHANGED <<issues, lastOp, applyCount, unacked>>

NextMerge == MergeStep

SpecMerge == InitMerge /\ [][NextMerge]_vars

----------------------------------------------------------------------------
(* The operations that follow alias labels, on arbitrary label graphs: the *)
(* tracker holds GraphIssues issues, issue i labelled UID:<i-th id>, with  *)
(* any role label and any ALIAS-TO label, by number or by id               *)

GraphIssues == 3

IdNames == <<"a", "b", "c", "d", "e">>

GraphIds == {IdNames[i] : i \in 1..GraphIssues}

GraphRoles == {{}, {AliasLabel}, {CanonicalLabel}}

GraphAliasTo ==
    {{}} \cup {{AliasToNum(n)} : n \in 1..GraphIssues} \cup {{AliasToId(id)} : id \in GraphIds}

GraphIssue(i, role, to) ==
    Issue(OwnerLogin, "closed", {BaseLabel, UidLabel(IdNames[i])} \cup role \cup to,
          Dumps(K1), << >>)

\* IssueHandler.get_object_history: the issue whose comments are returned.
\* The listing is not narrowed to closed issues and its first issue is
\* taken; the redirect is a recursive call inside try ... except Exception.
RECURSIVE get_object_history(_, _)
get_object_history(object_id, fuel) ==
    LET found == get_issues({BaseLabel, UidLabel(object_id)}, "all")
        n == Min(found)
        own == [res |-> "ok", n |-> n]
    IN  IF found = {} THEN [res |-> "ObjectNotFound", n |-> 0]
        ELSE IF HasLabel(n, AliasLabel) /\ alias_target(n) # 0
        THEN LET c == alias_target(n)
             IN  IF c \notin Numbers \/ get_object_id_from_labels(c) = "" \/ fuel = 0
                 THEN own
                 ELSE LET r == get_object_history(get_object_id_from_labels(c), fuel - 1)
                      IN  IF r.res = "ok" THEN r ELSE own
        ELSE own

InitGraph ==
    /\ issues \in {[i \in 1..GraphIssues |-> GraphIssue(i, pick[i][1], pick[i][2])] :
                       pick \in [1..GraphIssues -> GraphRoles \X GraphAliasTo]}
    /\ lastOp = InitOp
    /\ applyCount = [c \in 1..MaxComments |-> 0]
    /\ unacked = {}
    /\ probe = NoProbe

\* CanonicalStore.resolve_canonical_object_id(object_id)
Resolve(object_id) ==
    /\ probe' = [kind |-> "resolve", id |-> object_id, res |-> "ok", n |-> 0,
                 result |-> resolve_canonical_object_id(issues, object_id, MaxAliasDepth)]
    /\ UNCHANGED <<issues, lastOp, applyCount, unacked>>

\* GitHubStore.get(object_id)
Get(object_id) ==
    /\ probe' = [kind |-> "get", id |-> object_id, res |-> get(object_id).res,
                 n |-> get(object_id).n, result |-> get(object_id).object_id]
    /\ UNCHANGED <<issues, lastOp, applyCount, unacked>>

\* GitHubStore.get_object_history(object_id)
History(object_id) ==
    LET h == get_object_history(object_id, MaxRecursion)
    IN  /\ probe' = [kind |-> "history", id |-> object_id, res |-> h.res, n |-> h.n,
                     result |-> ""]
        /\ UNCHANGED <<issues, lastOp, applyCount, unacked>>

\* one operation is called on each label graph
Untouched == probe = NoProbe /\ lastOp.op = "init"

NextGraph ==
    \/ Untouched /\ \E id \in GraphIds : Resolve(id)
    \/ Untouched /\ \E id \in GraphIds : Get(id)
    \/ Untouched /\ \E id \in GraphIds : History(id)
    \/ Untouched /\ UNCHANGED probe /\ \E n \in Numbers : \E cfail, mfail \in Failing(n) :
          \E order \in Orders(ProcessAliases(n)) : Process(n, order, cfail, mfail)

SpecGraph == InitGraph /\ [][NextGraph]_vars

----------------------------------------------------------------------------
(* AccessControl._is_authorized on any content of the three CODEOWNERS     *)
(* paths                                                                   *)

MaxOwners == 2

MaxLines == 1

OwnerTokens ==
    {UserToken("dev"), UserToken("bob"), TeamToken("team"), TeamToken("gone"), TwoSlashToken}

Lines == {CommentLine} \cup {OwnersLine(o) : o \in SeqsUpTo(OwnerTokens, MaxOwners)}

Files == {NoFile} \cup {File(l) : l \in SeqsUpTo(Lines, MaxLines)}

\* the file at the last path is absent or names one user
LastFiles == {NoFile, File(<< OwnersLine(<< UserToken("bob") >>) >>)}

Usernames == {OwnerLogin, "dev", "bob", "tim", NoUser}

InitAccess ==
    /\ issues = << >>
    /\ lastOp = InitOp
    /\ applyCount = [c \in 1..MaxComments |-> 0]
    /\ unacked = {}
    /\ \E f1, f2 \in Files, f3 \in LastFiles, u \in Usernames :
          probe = [kind |-> "access", files |-> << f1, f2, f3 >>, username |-> u,
                   called |-> FALSE, result |-> FALSE]

Authorize ==
    /\ ~probe.called
    /\ probe' = [probe EXCEPT !.called = TRUE,
                              !.result = authorized_with(_get_codeowners(probe.files),
                                                         probe.username)]
    /\ UNCHANGED <<issues, lastOp, applyCount, unacked>>

NextAccess == Authorize

SpecAccess == InitAccess /\ [][NextAccess]_vars

----------------------------------------------------------------------------
(* Marking duplicates (tools/find_duplicates.py, tools/mark_duplicates.py) *)
(* and the operations that write alias labels, on their own                *)

\* find_duplicates: the issues that bear the base label, are not archived
\* and carry the identity label of object_id, when there are several
find_duplicates(object_id) ==
    LET group == {n \in get_issues({BaseLabel}, "all") :
                     /\ ~HasLabel(n, ArchivedLabel)
                     /\ get_object_id_from_labels(n) = object_id}
    IN  IF Cardinality(group) > 1 THEN group ELSE {}

relationship_comment(id, caller, role) ==
    system_comment(id, caller, Obj("duplicate_relationship" :> Str(role)),
                   "system_relationship")

\* the loop of mark_duplicate_relationship over the alias issues
RECURSIVE mark_aliases_of(_, _, _, _, _)
mark_aliases_of(is, canonical_number, alias_numbers, id, caller) ==
    IF alias_numbers = {} THEN is
    ELSE LET a == Min(alias_numbers)
         IN  mark_aliases_of(
                post_comment([is EXCEPT ![a].labels =
                                 @ \cup {AliasLabel, AliasToNum(canonical_number)}],
                             a, relationship_comment(id, caller, "alias")),
                canonical_number, alias_numbers \ {a}, id + 1, caller)

\* mark_duplicate_relationship
mark_duplicate_relationship(is, canonical_number, alias_numbers, caller) ==
    mark_aliases_of(
        post_comment([is EXCEPT ![canonical_number].labels = @ \cup {CanonicalLabel}],
                     canonical_number, relationship_comment(NextId, caller, "canonical")),
        canonical_number, alias_numbers, NextId + 1, caller)

\* mark_duplicates.main for one object id: the oldest issue of the group is
\* the canonical one, the others become its aliases
MarkDuplicates(object_id, caller) ==
    LET duplicates == find_duplicates(object_id)
    IN  IF duplicates = {}
        THEN /\ lastOp' = Op("mark_duplicates", object_id, 0, "NoDuplicates", NoData)
             /\ UNCHANGED <<issues, applyCount, unacked>>
        ELSE /\ CommentCount + Cardinality(duplicates) <= MaxComments
             /\ issues' = mark_duplicate_relationship(issues, Min(duplicates),
                                                      duplicates \ {Min(duplicates)}, caller)
             /\ lastOp' = [Op("mark_duplicates", object_id, Min(duplicates), "ok", NoData)
                             EXCEPT !.tgt = Min(duplicates)]
             /\ UNCHANGED <<applyCount, unacked>>

NextAlias ==
    \/ lastOp.k < MaxOps /\ UNCHANGED probe /\ \E id \in ObjectIds, u \in Callers : \E d \in DataOf(u) : Create(id, d, u)
    \/ lastOp.k < MaxOps /\ UNCHANGED probe /\ \E c, a \in ObjectIds : CreateAlias(c, a, OwnerLogin)
    \/ lastOp.k < MaxOps /\ UNCHANGED probe /\ \E src, tgt \in ObjectIds : CanonicalCreateAlias(src, tgt, OwnerLogin)
    \/ lastOp.k < MaxOps /\ UNCHANGED probe /\ \E id \in ObjectIds : Deduplicate(id)
    \/ lastOp.k < MaxOps /\ UNCHANGED probe /\ \E id \in ObjectIds : MarkDuplicates(id, OwnerLogin)

SpecAlias == Init /\ [][NextAlias]_vars

----------------------------------------------------------------------------
(* Two callers of GitHubStore.process_updates at once.  A call is a        *)
(* sequence of tracker reads and writes (core/store.py lines 75 to 149);   *)
(* between two of them the other call and the other operations of the      *)
(* store may act.  probe.proc[p] holds what call p has read so far;        *)
(* probe.base and probe.acked0 are the body of the issue and the comments  *)
(* that bore the processed reaction when the first call began.             *)

Processors == {1, 2}

RaceChanges == {K2, J1}

IdleProc ==
    [pc |-> "idle", n |-> 0, m |-> 0, canonical |-> FALSE, aliases |-> {},
     updates |-> << >>, data |-> NoData, res |-> "ok"]

AckedIds == {c.id : c \in {x \in AllComments : Processed \in x.reactions}}

InitRace ==
    /\ issues = << >>
    /\ lastOp = InitOp
    /\ applyCount = [c \in 1..MaxComments |-> 0]
    /\ unacked = {}
    /\ probe = [kind |-> "race", proc |-> [p \in Processors |-> IdleProc],
                started |-> FALSE, base |-> NoData, acked0 |-> {}]

\* the issue numbers a call is made with: the first call is for an issue
\* labelled canonical-object, the second call for the same issue once the
\* first has begun
RaceIssues(p) ==
    IF p = 1 THEN get_issues({CanonicalLabel}, "all")
    ELSE IF probe.proc[1].pc # "idle" THEN {probe.proc[1].n}
    ELSE {}

\* lines 75 to 98: the issue is fetched, the creator checked, the redirect
\* followed and the unprocessed updates of the issue collected
RaceCollect(p, n) ==
    LET m == process_target(n, MaxRecursion) IN
    /\ probe.proc[p].pc = "idle"
    /\ probe' = IF m <= 0
                THEN [probe EXCEPT !.proc[p] = [IdleProc EXCEPT !.pc = "done", !.n = n,
                                                                !.res = "error"]]
                ELSE [probe EXCEPT
                        !.proc[p] = [IdleProc EXCEPT !.pc = "own", !.n = n, !.m = m,
                                        !.canonical = HasLabel(m, CanonicalLabel),
                                        !.updates = get_unprocessed_updates(m)],
                        !.started = TRUE,
                        !.base = IF probe.started THEN @ ELSE Loads(issues[m].body),
                        !.acked0 = IF probe.started THEN @ ELSE AckedIds]
    /\ UNCHANGED <<issues, lastOp, applyCount, unacked>>

\* lines 100 to 119: the aliases are listed, their updates collected and the
\* whole list sorted again
RaceCollectAliases(p, order) ==
    LET me == probe.proc[p] IN
    /\ me.pc = "own"
    /\ probe' = [probe EXCEPT !.proc[p] =
                    IF me.canonical
                    THEN [me EXCEPT !.pc = "collected", !.aliases = find_aliases(me.m),
                                    !.updates = resort_all_updates(@ \o collect_aliases(order, {}))]
                    ELSE [me EXCEPT !.pc = "collected"]]
    /\ UNCHANGED <<issues, lastOp, applyCount, unacked>>

\* lines 122 to 124: the object is read and the updates applied to it
RaceRead(p) ==
    LET me == probe.proc[p]
        obj == get_object_by_number(me.m, MaxRecursion)
    IN  /\ me.pc = "collected"
        /\ probe' = [probe EXCEPT !.proc[p] =
                        IF obj.res # "ok" THEN [me EXCEPT !.pc = "done", !.res = obj.res]
                        ELSE [me EXCEPT !.pc = "read",
                                        !.data = apply_all(obj.data, me.updates)]]
        /\ UNCHANGED <<issues, lastOp, applyCount, unacked>>

\* line 127: the body is written and the issue closed
RaceWrite(p) ==
    LET me == probe.proc[p] IN
    /\ me.pc = "read"
    /\ issues' = update_issue_body(issues, me.m, me.data)
    /\ probe' = [probe EXCEPT !.proc[p].pc = "written"]
    /\ UNCHANGED <<lastOp, applyCount, unacked>>

\* lines 130 to 134: the updates found among the comments of the issue get
\* the processed reaction
RaceMark(p) ==
    LET me == probe.proc[p] IN
    /\ me.pc = "written"
    /\ issues' = mark_processed(issues, me.m, on_issue(me.m, me.updates))
    /\ probe' = [probe EXCEPT !.proc[p].pc = "marked"]
    /\ UNCHANGED <<lastOp, applyCount, unacked>>

\* lines 137 to 149: the same on the alias issues listed before; the call
\* returns
RaceMarkAliases(p) ==
    LET me == probe.proc[p] IN
    /\ me.pc = "marked"
    /\ issues' = mark_aliases(issues, me.aliases, me.updates)
    /\ probe' = [probe EXCEPT !.proc[p].pc = "done"]
    /\ applyCount' = Bump(applyCount, UpdateIds(me.updates))
    /\ lastOp' = [Op("process", "", me.n, "ok", me.data)
                    EXCEPT !.tgt = me.m, !.seq = me.updates]
    /\ UNCHANGED unacked

NextRace ==
    \/ lastOp.k < MaxOps /\ UNCHANGED probe /\ \E id \in ObjectIds : \E d \in DataOf(OwnerLogin) :
          Create(id, d, OwnerLogin)
    \/ lastOp.k < MaxOps /\ UNCHANGED probe /\ \E c, a \in ObjectIds : CreateAlias(c, a, OwnerLogin)
    \/ lastOp.k < MaxOps /\ UNCHANGED probe /\ \E id \in ObjectIds : \E ch \in RaceChanges :
          Update(id, ch, OwnerLogin)
    \/ \E p \in Processors : \E n \in RaceIssues(p) : RaceCollect(p, n)
    \/ \E p \in Processors : \E order \in Orders(find_aliases(probe.proc[p].m)) :
          RaceCollectAliases(p, order)
    \/ \E p \in Processors : RaceRead(p)
    \/ \E p \in Processors : RaceWrite(p)
    \/ \E p \in Processors : RaceMark(p)
    \/ \E p \in Processors : RaceMarkAliases(p)

SpecRace == InitRace /\ [][NextRace]_vars

----------------------------------------------------------------------------
(* CanonicalStore._deep_merge on Python dictionaries.  A dictionary is an   *)
(* object of the heap; a value stored under a key is a number or a         *)
(* reference to a dictionary.  heap is the sequence of the dictionaries    *)
(* allocated so far, an address its index.                                 *)

Ref(a) == [t |-> "ref", n |-> a, s |-> "", f |-> EmptyF]

\* json.loads of an object: every object of the text becomes a dictionary
\* of its own
RECURSIVE alloc(_, _)
RECURSIVE alloc_keys(_, _, _, _)
alloc_keys(h, f, keys, d) ==
    IF keys = {} THEN [h |-> h, d |-> d]
    ELSE LET k == CHOOSE x \in keys : TRUE
         IN  IF IsObj(f[k])
             THEN LET sub == alloc(h, f[k])
                  IN  alloc_keys(sub.h, f, keys \ {k}, (k :> Ref(sub.a)) @@ d)
             ELSE alloc_keys(h, f, keys \ {k}, (k :> f[k]) @@ d)

alloc(h, v) ==
    LET r == alloc_keys(h, v.f, DOMAIN v.f, EmptyF)
    IN  [h |-> Append(r.h, r.d), a |-> Len(r.h) + 1]

\* json.dumps of the dictionary at an address
RECURSIVE deref(_, _)
deref(h, a) ==
    Obj([k \in DOMAIN h[a] |-> IF h[a][k].t = "ref" THEN deref(h, h[a][k].n) ELSE h[a][k]])

\* base.update(update); return base
heap_update_in_place(h, base, update) ==
    [h |-> [h EXCEPT ![base] = h[update] @@ @], a |-> base]

\* CanonicalStore._deep_merge: result = base.copy() is a new dictionary that
\* shares the values of base; a key whose values are dictionaries on both
\* sides gets the merge of the two, any other key of update its value, which
\* is shared with update
RECURSIVE heap_deep_merge(_, _, _)
RECURSIVE heap_merge_keys(_, _, _, _)
heap_merge_keys(h, result, update, keys) ==
    IF keys = {} THEN h
    ELSE LET key == CHOOSE x \in keys : TRUE
             value == h[update][key]
         IN  IF key \in DOMAIN h[result] /\ h[result][key].t = "ref" /\ value.t = "ref"
             THEN LET sub == heap_deep_merge(h, h[result][key].n, value.n)
                  IN  heap_merge_keys([sub.h EXCEPT ![result] = (key :> Ref(sub.a)) @@ @],
                                      result, update, keys \ {key})
             ELSE heap_merge_keys([h EXCEPT ![result] = (key :> value) @@ @],
                                  result, update, keys \ {key})

heap_deep_merge(h, base, update) ==
    LET result == Len(h) + 1
    IN  [h |-> heap_merge_keys(Append(h, h[base]), result, update, DOMAIN h[update]),
         a |-> result]

\* the payloads of a sequence of envelopes, parsed one after the other
RECURSIVE alloc_envelopes(_, _, _)
alloc_envelopes(h, S, envs) ==
    IF S = << >> THEN [h |-> h, envs |-> envs]
    ELSE LET r == alloc(h, Head(S).data)
         IN  alloc_envelopes(r.h, Tail(S), Append(envs, [mode |-> Head(S).mode, a |-> r.a]))

\* cur: the address of current_state; envs: the modes and payload addresses
\* of the envelopes; i: the envelopes applied so far
HeapProbe(B, S) ==
    LET b == alloc(<< >>, B)
        r == alloc_envelopes(b.h, S, << >>)
    IN  [kind |-> "heap", heap |-> r.h, cur |-> b.a, envs |-> r.envs, i |-> 0]

InitHeap ==
    /\ issues = << >>
    /\ lastOp = InitOp
    /\ applyCount = [c \in 1..MaxComments |-> 0]
    /\ unacked = {}
    /\ \E B \in MergeBases, S \in SeqsUpTo(MergeEnvelopes, MaxLen) : probe = HeapProbe(B, S)

\* one turn of the update loop of process_with_virtual_merge
HeapStep ==
    /\ probe.i < Len(probe.envs)
    /\ LET e == probe.envs[probe.i + 1]
           r == heap_deep_merge(probe.heap, probe.cur, e.a)
       IN  probe' = IF e.mode = "append"
                    THEN [probe EXCEPT !.i = @ + 1, !.heap = r.h, !.cur = r.a]
                    ELSE [probe EXCEPT !.i = @ + 1, !.cur = e.a]
    /\ UNCHANGED <<issues, lastOp, applyCount, unacked>>

NextHeap == HeapStep

SpecHeap == InitHeap /\ [][NextHeap]_vars

----------------------------------------------------------------------------
(* A process cycle on an anchor with two aliases.  The tracker holds the   *)
(* canonical issue #1 of object "a" and the alias issues #2 and #3 as      *)
(* create_alias leaves them, and up to MaxPending update comments posted   *)
(* on any of the three with any of the client timestamps of Stamps.        *)

MaxPending == 3

Stamps == {1, 2}

AliasCreators == Callers

\* the i-th update comment posted; the comments 1 to 5 are those of create
\* and of the two create_alias calls
pending_comment(i, ts) ==
    Comment(5 + i, OwnerLogin, CommentBody(Envelope(K2, ts, "append", "", FALSE)), {})

RECURSIVE pending_on(_, _, _)
pending_on(n, place, i) ==
    IF i > Len(place) THEN << >>
    ELSE (IF place[i][1] = n THEN << pending_comment(i, place[i][2]) >> ELSE << >>)
         \o pending_on(n, place, i + 1)

aliased_anchor(place) ==
    Issue(OwnerLogin, "open", {BaseLabel, UidLabel("a"), CanonicalLabel}, Dumps(K1),
          << Comment(1, OwnerLogin,
                     CommentBody(Envelope(K1, 0, "append", "initial_state", FALSE)),
                     {Processed, InitialState}),
             Comment(3, OwnerLogin,
                     CommentBody(Envelope(Obj("aliased_by" :> Str("b")), 0, "append",
                                          "system_alias_reference", TRUE)), {}),
             Comment(5, OwnerLogin,
                     CommentBody(Envelope(Obj("aliased_by" :> Str("c")), 0, "append",
                                          "system_alias_reference", TRUE)), {}) >>
          \o pending_on(1, place, 1))

aliased_alias(n, alias_id, creator, place) ==
    Issue(creator, "closed", {BaseLabel, UidLabel(alias_id), AliasLabel, AliasToNum(1)},
          Dumps(Obj("alias_to" :> Str("a"))),
          << Comment(2 * (n - 1), creator,
                     CommentBody(Envelope(Obj("alias_to" :> Str("a")), 0, "append",
                                          "system_alias", TRUE)), {}) >>
          \o pending_on(n, place, 1))

InitAliased ==
    /\ \E place \in SeqsUpTo((1..3) \X Stamps, MaxPending) : \E c2, c3 \in AliasCreators :
          issues = << aliased_anchor(place), aliased_alias(2, "b", c2, place),
                      aliased_alias(3, "c", c3, place) >>
    /\ lastOp = InitOp
    /\ applyCount = [c \in 1..MaxComments |-> 0]
    /\ unacked = {}
    /\ probe = NoProbe

NextAliased ==
    Untouched /\ UNCHANGED probe /\ \E n \in Numbers : \E cfail, mfail \in Failing(n) :
        \E order \in Orders(ProcessAliases(n)) : Process(n, order, cfail, mfail)

SpecAliased == InitAliased /\ [][NextAliased]_vars

----------------------------------------------------------------------------
(* The two filters of system comments side by side: a base state B and a  *)
(* sequence S of envelopes, each posted by the owner as a comment, are    *)
(* replayed one envelope at a step by the loop of                         *)
(* process_with_virtual_merge and by a process cycle that finds the       *)
(* comment pending                                                        *)

MaxSystem == 2

SystemEnvelopes ==
    {Envelope(d, 0, m, t, s) : d \in {K2, J1}, m \in {"append", "replace"},
                               t \in {"", "initial_state"} \cup SystemTypes, s \in BOOLEAN}

\* virtual: the state of the virtual merge; processed: the body the
\* process cycles have written; i: the envelopes replayed so far
SystemProbe(B, S) ==
    [kind |-> "system", B |-> B, S |-> S, i |-> 0, virtual |-> B, processed |-> B]

InitSystem ==
    /\ issues = << >>
    /\ lastOp = InitOp
    /\ applyCount = [c \in 1..MaxComments |-> 0]
    /\ unacked = {}
    /\ \E B \in MergeBases, S \in SeqsUpTo(SystemEnvelopes, MaxSystem) :
          probe = SystemProbe(B, S)

SystemStep ==
    /\ probe.i < Len(probe.S)
    /\ LET e == probe.S[probe.i + 1]
           c == Comment(probe.i + 1, OwnerLogin, CommentBody(e), {})
       IN  probe' = [probe EXCEPT
                        !.i = @ + 1,
                        !.virtual = merge_comments(@, << [data |-> e] >>),
                        !.processed = apply_all(@, StableSortByTs(to_updates(<< c >>)))]
    /\ UNCHANGED <<issues, lastOp, applyCount, unacked>>

NextSystem == SystemStep

SpecSystem == InitSystem /\ [][NextSystem]_vars

----------------------------------------------------------------------------
(* CanonicalStore.deprecate_object when the tracker refuses a comment      *)

\* failed names the create_comment call that raises: "source" for the
\* system_deprecation comment, "target" for the system_reference comment.
\* Neither call is inside a try block, so the exception leaves
\* deprecate_object after the label changes were made.
DeprecateWithFailure(object_id, target_id, caller, failed) ==
    LET source_issues == issues_with(issues, {UidLabel(object_id)})
        target_issues == issues_with(issues, {UidLabel(target_id)})
    IN  IF source_issues = {} \/ target_issues = {}
        THEN /\ lastOp' = Op("deprecate", object_id, 0, "ObjectNotFound", NoData)
             /\ UNCHANGED <<issues, applyCount, unacked>>
        ELSE \E source_issue \in source_issues, target_issue \in target_issues :
               LET labelled == [issues EXCEPT ![source_issue].labels =
                                   (@ \ {UidLabel(object_id)})
                                       \cup {DeprecatedLabel, MergedInto(target_id)}]
               IN  /\ CommentCount < MaxComments
                   /\ issues' = IF failed = "source" THEN labelled
                                ELSE post_comment(labelled, source_issue,
                                        system_comment(NextId, caller,
                                            Obj("status" :> Str("deprecated")),
                                            "system_deprecation"))
                   /\ lastOp' = [Op("deprecate", object_id, source_issue,
                                    "GithubException", NoData)
                                   EXCEPT !.tgt = target_issue, !.flag = TRUE]
                   /\ UNCHANGED <<applyCount, unacked>>

\* CanonicalStore.create_alias when the tracker refuses a comment: the
\* ALIAS-TO label was added inside the try block before, the create_comment
\* calls follow it unprotected
CanonicalCreateAliasWithFailure(source_id, target_id, caller, failed) ==
    LET source_issues == issues_with(issues, {UidLabel(source_id)})
        target_issues == issues_with(issues, {UidLabel(target_id)})
    IN  IF source_issues = {} \/ target_issues = {}
        THEN /\ lastOp' = Op("canonical_create_alias", source_id, 0, "ObjectNotFound", NoData)
             /\ UNCHANGED <<issues, applyCount, unacked>>
        ELSE \E source_issue \in source_issues, target_issue \in target_issues :
               IF \E l \in issues[source_issue].labels : IsAliasTo(l)
               THEN /\ lastOp' = Op("canonical_create_alias", source_id, source_issue,
                                    "ValueError", NoData)
                    /\ UNCHANGED <<issues, applyCount, unacked>>
               ELSE LET labelled == [issues EXCEPT ![source_issue].labels =
                                        @ \cup {AliasToId(target_id)}]
                    IN  /\ CommentCount < MaxComments
                        /\ issues' = IF failed = "source" THEN labelled
                                     ELSE post_comment(labelled, source_issue,
                                             system_comment(NextId, caller,
                                                 Obj("alias_to" :> Str(target_id)),
                                                 "system_alias"))
                        /\ lastOp' = [Op("canonical_create_alias", source_id, source_issue,
                                         "GithubException", NoData)
                                        EXCEPT !.tgt = target_issue, !.flag = TRUE]
                        /\ UNCHANGED <<applyCount, unacked>>

NextDeprecate ==
    \/ lastOp.k < MaxOps /\ UNCHANGED probe /\ \E id \in ObjectIds, u \in Callers : \E d \in DataOf(u) : Create(id, d, u)
    \/ lastOp.k < MaxOps /\ UNCHANGED probe /\ \E src, tgt \in ObjectIds : CanonicalCreateAlias(src, tgt, OwnerLogin)
    \/ lastOp.k < MaxOps /\ UNCHANGED probe /\ \E src, tgt \in ObjectIds : Deprecate(src, tgt, OwnerLogin)
    \/ lastOp.k < MaxOps /\ UNCHANGED probe /\ \E src, tgt \in ObjectIds, failed \in {"source", "target"} :
          DeprecateWithFailure(src, tgt, OwnerLogin, failed)
    \/ lastOp.k < MaxOps /\ UNCHANGED probe /\ \E src, tgt \in ObjectIds, failed \in {"source", "target"} :
          CanonicalCreateAliasWithFailure(src, tgt, OwnerLogin, failed)

SpecDeprecate == Init /\ [][NextDeprecate]_vars

----------------------------------------------------------------------------
(* IssueHandler._with_retry (handlers/issue.py): one iteration of its loop *)
(* at a step.  outcomes[i] is what the i-th call of the wrapped read does: *)
(* "ok" returns, "rate_limit" raises RateLimitExceededException, "error"   *)
(* raises another exception                                                *)

MaxAttempts == 3

Outcomes == {"ok", "rate_limit", "error"}

\* attempt: the loop variable; calls: the calls of func made so far;
\* sleeps: the calls of sleep made so far; res: "running" inside the loop
RetryProbe(max_attempts, outcomes) ==
    [kind |-> "retry", max_attempts |-> max_attempts, outcomes |-> outcomes,
     attempt |-> 0, calls |-> 0, sleeps |-> 0, res |-> "running", value |-> 0]

\* a wrapper that sleeps and tries again after any exception
_with_retry_on_any(p) ==
    IF p.attempt >= p.max_attempts THEN [p EXCEPT !.res = "RuntimeError"]
    ELSE LET o == p.outcomes[p.attempt + 1]
             q == [p EXCEPT !.calls = @ + 1]
         IN  IF o = "ok" THEN [q EXCEPT !.res = "ok", !.value = p.attempt + 1]
             ELSE IF p.attempt = p.max_attempts - 1
             THEN [q EXCEPT !.res = IF o = "error" THEN "Exception"
                                    ELSE "RateLimitExceededException"]
             ELSE [q EXCEPT !.attempt = @ + 1, !.sleeps = @ + 1]

\* the body of `for attempt in range(max_attempts)` and the statement after
\* the loop; value is the number of the call whose result is returned
_with_retry(p) ==
    IF p.attempt >= p.max_attempts THEN [p EXCEPT !.res = "RuntimeError"]
    ELSE LET o == p.outcomes[p.attempt + 1]
             q == [p EXCEPT !.calls = @ + 1]
         IN  IF o = "ok" THEN [q EXCEPT !.res = "ok", !.value = p.attempt + 1]
             ELSE IF o = "error" THEN [q EXCEPT !.res = "Exception"]
             ELSE IF p.attempt = p.max_attempts - 1
             THEN [q EXCEPT !.res = "RateLimitExceededException"]
             ELSE [q EXCEPT !.attempt = @ + 1, !.sleeps = @ + 1]

InitRetry ==
    /\ issues = << >>
    /\ lastOp = InitOp
    /\ applyCount = [c \in 1..MaxComments |-> 0]
    /\ unacked = {}
    /\ \E max_attempts \in 0..MaxAttempts, outcomes \in [1..MaxAttempts -> Outcomes] :
          probe = RetryProbe(max_attempts, outcomes)

RetryStep ==
    /\ probe.res = "running"
    /\ probe' = _with_retry(probe)
    /\ UNCHANGED <<issues, lastOp, applyCount, unacked>>

NextRetry == RetryStep

SpecRetry == InitRetry /\ [][NextRetry]_vars

----------------------------------------------------------------------------
(* The caches of one AccessControl instance (core/access.py), with the     *)
(* coroutines awaited.  The tracker's owner and CODEOWNERS files change    *)
(* between calls                                                           *)

MaxCalls == 5

CacheOwners == {OwnerLogin, "bob"}

CacheFiles ==
    {<< NoFile, NoFile, NoFile >>,
     << File(<< OwnersLine(<< UserToken("dev") >>) >>), NoFile, NoFile >>,
     << NoFile, NoFile, File(<< OwnersLine(<< UserToken("bob") >>) >>) >>}

CacheUsers == {OwnerLogin, "bob", "dev", NoUser}

\* self._owner_info and self._codeowners: None, or the value read
NoOwnerInfo == [none |-> TRUE, login |-> ""]

OwnerInfo(login) == [none |-> FALSE, login |-> login]

NoCodeowners == [none |-> TRUE, set |-> {}]

CodeownersSet(set) == [none |-> FALSE, set |-> set]

\* owner, files: what the tracker holds now; _owner_info, _codeowners: the
\* two attributes; owner_reads, codeowners_reads: the calls of
\* repo.get_owner and the runs of the loop over the CODEOWNERS paths since
\* the attributes were last None; last: the call made last; n: calls so far
CacheProbe(owner, files) ==
    [kind |-> "cache", owner |-> owner, files |-> files,
     _owner_info |-> NoOwnerInfo, _codeowners |-> NoCodeowners,
     owner_reads |-> 0, codeowners_reads |-> 0,
     last |-> "init", username |-> NoUser, result |-> FALSE, n |-> 0]

\* _is_authorized on an instance that reads the tracker at every call
_is_authorized_uncached(p, username) ==
    IF username = NoUser
    THEN [p EXCEPT !.last = "decide", !.username = username, !.result = FALSE, !.n = @ + 1]
    ELSE LET q == [p EXCEPT !._owner_info = OwnerInfo(p.owner), !.owner_reads = @ + 1,
                            !.last = "decide", !.username = username, !.n = @ + 1]
         IN  IF username = q._owner_info.login THEN [q EXCEPT !.result = TRUE]
             ELSE [q EXCEPT !._codeowners = CodeownersSet(_get_codeowners(p.files)),
                            !.codeowners_reads = @ + 1,
                            !.result = username \in _get_codeowners(p.files)]

\* AccessControl._is_authorized with _get_owner_info and _get_codeowners:
\* the owner is read when _owner_info is falsy, the files when _codeowners
\* is None; the files are not looked at for the owner or for no user
_is_authorized_cached(p, username) ==
    IF username = NoUser
    THEN [p EXCEPT !.last = "decide", !.username = username, !.result = FALSE, !.n = @ + 1]
    ELSE LET q == IF p._owner_info.none
                  THEN [p EXCEPT !._owner_info = OwnerInfo(p.owner), !.owner_reads = @ + 1,
                                 !.last = "decide", !.username = username, !.n = @ + 1]
                  ELSE [p EXCEPT !.last = "decide", !.username = username, !.n = @ + 1]
         IN  IF username = q._owner_info.login THEN [q EXCEPT !.result = TRUE]
             ELSE IF ~q._codeowners.none
             THEN [q EXCEPT !.result = username \in q._codeowners.set]
             ELSE [q EXCEPT !._codeowners = CodeownersSet(_get_codeowners(p.files)),
                            !.codeowners_reads = @ + 1,
                            !.result = username \in _get_codeowners(p.files)]

\* AccessControl.clear_cache
clear_cache(p) ==
    [p EXCEPT !._owner_info = NoOwnerInfo, !._codeowners = NoCodeowners,
              !.owner_reads = 0, !.codeowners_reads = 0, !.last = "clear", !.n = @ + 1]

InitCache ==
    /\ issues = << >>
    /\ lastOp = InitOp
    /\ applyCount = [c \in 1..MaxComments |-> 0]
    /\ unacked = {}
    /\ \E owner \in CacheOwners, files \in CacheFiles : probe = CacheProbe(owner, files)

\* the repository changes hands or a CODEOWNERS file is edited
TrackerChanges ==
    /\ probe.n < MaxCalls
    /\ \E owner \in CacheOwners, files \in CacheFiles :
          /\ <<owner, files>> # <<probe.owner, probe.files>>
          /\ probe' = [probe EXCEPT !.owner = owner, !.files = files,
                                    !.last = "change", !.n = @ + 1]
    /\ UNCHANGED <<issues, lastOp, applyCount, unacked>>

Decide ==
    /\ probe.n < MaxCalls
    /\ \E username \in CacheUsers : probe' = _is_authorized_cached(probe, username)
    /\ UNCHANGED <<issues, lastOp, applyCount, unacked>>

ClearCache ==
    /\ probe.n < MaxCalls
    /\ probe' = clear_cache(probe)
    /\ UNCHANGED <<issues, lastOp, applyCount, unacked>>

NextCache == TrackerChanges \/ Decide \/ ClearCache

SpecCache == InitCache /\ [][NextCache]_vars

----------------------------------------------------------------------------
(* Two callers of GitHubStore.update at once.  A call is three tracker     *)
(* requests: the listing of open issues (core/store.py lines 56 to 60),    *)
(* the comment (handlers/issue.py line 432) and the reopening (line 435);  *)
(* between two of them the other call may act.  probe.call[u] holds what   *)
(* the call of u has done so far                                           *)

UpdateCallers == {OwnerLogin, "dev"}

IdleCall == [pc |-> "idle", id |-> "", changes |-> NoData, t |-> 0, res |-> "ok"]

InitUpdates ==
    /\ issues = << >>
    /\ lastOp = InitOp
    /\ applyCount = [c \in 1..MaxComments |-> 0]
    /\ unacked = {}
    /\ probe = [kind |-> "updates", call |-> [u \in UpdateCallers |-> IdleCall]]

\* GitHubStore.update up to the call of update_object: ConcurrentUpdateError
\* when an issue of the object is open
UpdateCheck(u, object_id, changes) ==
    /\ probe.call[u].pc = "idle"
    /\ issues # << >>
    /\ probe' = [probe EXCEPT !.call[u] =
                    IF get_issues({BaseLabel, UidLabel(object_id)}, "open") # {}
                    THEN [IdleCall EXCEPT !.pc = "done", !.id = object_id,
                                          !.changes = changes, !.res = "ConcurrentUpdate"]
                    ELSE [IdleCall EXCEPT !.pc = "checked", !.id = object_id,
                                          !.changes = changes]]
    /\ UNCHANGED <<issues, lastOp, applyCount, unacked>>

\* IssueHandler.update_object up to create_comment
UpdatePost(u) ==
    LET me == probe.call[u] IN
    /\ me.pc = "checked"
    /\ IF get_issues({BaseLabel, UidLabel(me.id)}, "all") = {}
       THEN /\ probe' = [probe EXCEPT !.call[u] = [me EXCEPT !.pc = "done",
                                                             !.res = "ObjectNotFound"]]
            /\ UNCHANGED issues
       ELSE \E t \in update_object_targets(me.id) :
              /\ t # 0
              /\ CommentCount < MaxComments
              /\ issues' = post_comment(issues, t, update_payload(me.changes, u))
              /\ probe' = [probe EXCEPT !.call[u] = [me EXCEPT !.pc = "posted", !.t = t]]
    /\ UNCHANGED <<lastOp, applyCount, unacked>>

\* issue.edit(state="open") and the return
UpdateReopen(u) ==
    LET me == probe.call[u] IN
    /\ me.pc = "posted"
    /\ issues' = [issues EXCEPT ![me.t].state = "open"]
    /\ probe' = [probe EXCEPT !.call[u].pc = "done"]
    /\ lastOp' = [Op("update", me.id, me.t, "ok", me.changes) EXCEPT !.tgt = me.t]
    /\ UNCHANGED <<applyCount, unacked>>

NextUpdates ==
    \/ lastOp.k < MaxOps /\ UNCHANGED probe /\ \E id \in ObjectIds : \E d \in DataOf(OwnerLogin) :
          Create(id, d, OwnerLogin)
    \/ lastOp.k < MaxOps /\ UNCHANGED probe /\ \E n \in Numbers : Process(n, << >>, {}, {})
    \/ \E u \in UpdateCallers, id \in ObjectIds : \E ch \in RaceChanges : UpdateCheck(u, id, ch)
    \/ \E u \in UpdateCallers : UpdatePost(u)
    \/ \E u \in UpdateCallers : UpdateReopen(u)

SpecUpdates == InitUpdates /\ [][NextUpdates]_vars

----------------------------------------------------------------------------
(* CLI.snapshot and CLI.update_snapshot (__main__.py), with              *)
(* GitHubStore.list_updated_since                                          *)

\* the arguments delete is called with: an object id, or the whole name of
\* an identity label
DeleteNames == ObjectIds \cup {"UID:" \o id : id \in ObjectIds}

NoSnapshot == [none |-> TRUE, snapshot_time |-> 0, objects |-> << >>, quiet |-> TRUE]

\* probe.created_at[n] and probe.updated_at[n] are the tracker's timestamps
\* of issue n; the time of an operation is its number lastOp.k
InitSnapshot ==
    /\ issues = << >>
    /\ lastOp = InitOp
    /\ applyCount = [c \in 1..MaxComments |-> 0]
    /\ unacked = {}
    /\ probe = [kind |-> "snapshot", created_at |-> << >>, updated_at |-> << >>,
                file |-> NoSnapshot]

\* the tracker stamps every issue an operation made or changed
Stamped ==
    probe' = [probe EXCEPT
        !.created_at = [n \in 1..Len(issues') |->
                          IF n > Len(issues) THEN lastOp'.k ELSE probe.created_at[n]],
        !.updated_at = [n \in 1..Len(issues') |->
                          IF n > Len(issues) \/ issues'[n] # issues[n]
                          THEN lastOp'.k ELSE probe.updated_at[n]]]

\* the entry the snapshot file holds for the object read from issue n
SnapshotEntry(n) ==
    [data |-> get_object_by_number(n, MaxRecursion).data,
     created_at |-> probe.created_at[n],
     updated_at |-> probe.updated_at[n],
     version |-> get_object_by_number(n, MaxRecursion).version]

\* the dictionaries a loop "objects[object_id] = obj" can leave over the
\* listed issues S: the listing's order decides which issue of an id is last
ObjectMaps(S) ==
    LET ids == {get_object_id_from_labels(n) : n \in S}
        last == {f \in [ids -> S] : \A id \in ids : get_object_id_from_labels(f[id]) = id}
    IN  {[id \in ids |-> SnapshotEntry(f[id])] : f \in last}

\* GitHubStore.list_updated_since(timestamp): the issues kept
updated_issues(timestamp) ==
    {n \in listed_issues : probe.updated_at[n] > timestamp}

NoOpenIssue == get_issues({BaseLabel}, "open") = {}

\* CLI.snapshot
Snapshot ==
    /\ lastOp.k < MaxOps
    /\ \E objects \in ObjectMaps(listed_issues) :
          probe' = [probe EXCEPT !.file = [none |-> FALSE, snapshot_time |-> lastOp.k + 1,
                                           objects |-> objects, quiet |-> NoOpenIssue]]
    /\ lastOp' = Op("snapshot", "", 0, "ok", NoData)
    /\ UNCHANGED <<issues, applyCount, unacked>>

\* a merge that also drops the entries of objects the listing no longer
\* holds, which update_snapshot does not do
merge_dropping(old, new) ==
    [id \in (DOMAIN old \cap list_all) \cup DOMAIN new |->
        IF id \in DOMAIN new THEN new[id] ELSE old[id]]

\* snapshot_data["objects"][obj_id] = ... for every updated object
merge_entries(old, new) ==
    [id \in DOMAIN old \cup DOMAIN new |->
        IF id \in DOMAIN new THEN new[id] ELSE old[id]]

\* CLI.update_snapshot; FileNotFoundError when there is no snapshot file.
\* flag tells whether the file was written
UpdateSnapshot ==
    /\ lastOp.k < MaxOps
    /\ IF probe.file.none
       THEN /\ lastOp' = Op("update_snapshot", "", 0, "FileNotFoundError", NoData)
            /\ UNCHANGED probe
       ELSE \E updated_objects \in ObjectMaps(updated_issues(probe.file.snapshot_time)) :
              IF DOMAIN updated_objects = {}
              THEN /\ lastOp' = Op("update_snapshot", "", 0, "ok", NoData)
                   /\ probe' = [probe EXCEPT !.file.quiet = @ /\ NoOpenIssue]
              ELSE /\ lastOp' = [Op("update_snapshot", "", 0, "ok", NoData)
                                    EXCEPT !.flag = TRUE]
                   /\ probe' = [probe EXCEPT
                         !.file.snapshot_time = lastOp.k + 1,
                         !.file.objects = merge_entries(@, updated_objects),
                         !.file.quiet = @ /\ NoOpenIssue]
    /\ UNCHANGED <<issues, applyCount, unacked>>

NextSnapshot ==
    \/ lastOp.k < MaxOps /\ (\E id \in ObjectIds : Create(id, K1, OwnerLogin)) /\ Stamped
    \/ lastOp.k < MaxOps /\ (\E id \in ObjectIds : Update(id, K2, OwnerLogin)) /\ Stamped
    \/ lastOp.k < MaxOps /\ (\E n \in Numbers : Process(n, << >>, {}, {})) /\ Stamped
    \/ lastOp.k < MaxOps /\ (\E name \in DeleteNames : Delete(name)) /\ Stamped
    \/ Snapshot
    \/ UpdateSnapshot

SpecSnapshot == InitSnapshot /\ [][NextSnapshot]_vars

----------------------------------------------------------------------------
(* Helpers of the properties                                               *)

\* the comment with a given id, wherever it sits
CommentsWithId(c) == {x \in AllComments : x.id = c}

\* the issue a process cycle worked on together with the aliases it read
CycleIssues == {lastOp.tgt} \cup
    (IF HasLabel(lastOp.tgt, CanonicalLabel) THEN find_aliases(lastOp.tgt) ELSE {})

ProcessDone == lastOp.op = "process" /\ lastOp.res = "ok"

SortedByTs(us) == \A i, j \in 1..Len(us) : i < j => us[i].timestamp <= us[j].timestamp

\* the active issues that carry the identity label of object_id
ActiveWithUid(object_id) ==
    {n \in get_issues({BaseLabel, UidLabel(object_id)}, "all") : ~HasLabel(n, DeprecatedLabel)}

----------------------------------------------------------------------------
(* Properties                                                              *)

\* C1: an update whose receiving anchor issue is open is refused with
\* ConcurrentUpdate (lastOp.flag records that the issue the envelope goes to
\* was open when update was called).
C1_OpenAnchorRefusesUpdate ==
    (lastOp.op = "update" /\ lastOp.flag) => lastOp.res = "ConcurrentUpdate"

\* C2: no issue body ever holds the payload of a comment written by an
\* unauthorized user (such payloads have the key "h").
C2_BodyFreeOfUnauthorizedPayload ==
    \A n \in Numbers : "h" \notin DOMAIN Loads(issues[n].body).f

\* C3: a process cycle applies no comment that bore the processed reaction
\* when the cycle collected, and a comment is applied twice only if a cycle
\* failed to acknowledge it (a tracker call on its alias issue raised).
C3_AppliedAtMostOnce ==
    [][(lastOp'.op = "process" /\ lastOp'.res = "ok") =>
          /\ \A c \in UpdateIds(lastOp'.seq) :
                \A x \in CommentsWithId(c) : Processed \notin x.reactions
          /\ \A c \in DOMAIN applyCount' : applyCount'[c] >= 2 => c \in unacked']_vars

\* a later cycle has left alone a comment that an earlier cycle applied and
\* acknowledged
C3_Witness ==
    /\ ProcessDone /\ ~lastOp.flag
    /\ \E n \in CycleIssues : \E c \in CommentIds(n) :
          /\ applyCount[c] = 1
          /\ c \notin UpdateIds(lastOp.seq)
          /\ \A x \in CommentsWithId(c) : Processed \in x.reactions

\* C4: after a process cycle in which no tracker call failed, the body of
\* the anchor is the replay of the collected updates over the body it had
\* when the cycle began, every applied comment bears the processed
\* reaction, and the anchor is closed.
C4_CycleOutcome ==
    (ProcessDone /\ ~lastOp.flag) =>
        /\ issues[lastOp.tgt].body = Dumps(apply_all(lastOp.base, lastOp.seq))
        /\ \A c \in UpdateIds(lastOp.seq) :
              \A x \in CommentsWithId(c) : Processed \in x.reactions
        /\ issues[lastOp.tgt].state = "closed"

\* a cycle that replayed updates of the anchor and of an alias over a body
\* and changed it
C4_Witness ==
    /\ ProcessDone /\ ~lastOp.flag
    /\ validate_issue_creator(issues[lastOp.tgt])
    /\ Len(lastOp.seq) >= 2
    /\ \E a \in CycleIssues \ {lastOp.tgt} : on_issue(a, lastOp.seq) # {}
    /\ on_issue(lastOp.tgt, lastOp.seq) # {}
    /\ Loads(issues[lastOp.tgt].body) # lastOp.base

\* C5: the updates a process cycle applies are in nondecreasing order of
\* their timestamps, whatever the order of the tracker listings, and the
\* body is their fold in that order.
C5_AppliedInTimestampOrder ==
    ProcessDone =>
        /\ SortedByTs(lastOp.seq)
        /\ Loads(issues[lastOp.tgt].body) = apply_all(lastOp.base, lastOp.seq)

\* a cycle applied a comment of an alias before a comment of the anchor
\* that was posted earlier but carries a later timestamp
C5_Witness ==
    /\ ProcessDone
    /\ \E i, j \in 1..Len(lastOp.seq) :
          /\ i < j
          /\ lastOp.seq[i].timestamp < lastOp.seq[j].timestamp
          /\ lastOp.seq[i].comment_id > lastOp.seq[j].comment_id
          /\ lastOp.seq[j].comment_id \in CommentIds(lastOp.tgt)
          /\ lastOp.seq[i].comment_id \notin CommentIds(lastOp.tgt)

\* C6: a process call on an issue whose creator is not authorized raises
\* AccessDenied.
C6_UnauthorizedCreatorDenied ==
    (lastOp.op = "process" /\ lastOp.n \in Numbers
        /\ ~validate_issue_creator(issues[lastOp.n]))
    => lastOp.res = "AccessDenied"

\* C7: every comment that gains the processed reaction in a process cycle
\* has an authorized author, a well-formed body, and was applied in that
\* cycle.
C7_OnlyAppliedAreMarked ==
    [][lastOp'.op = "process" =>
          \A n \in Numbers : \A i \in 1..Len(issues[n].comments) :
              (/\ Processed \in issues'[n].comments[i].reactions
               /\ Processed \notin issues[n].comments[i].reactions)
              => /\ _is_authorized(issues[n].comments[i].author)
                 /\ issues[n].comments[i].body.fmt = "json"
                 /\ issues[n].comments[i].id \in UpdateIds(lastOp'.seq)]_vars

\* a cycle acknowledged an applied comment and left a malformed comment of
\* the same issue without the reaction
C7_Witness ==
    /\ ProcessDone
    /\ \E n \in CycleIssues : \E i, j \in 1..Len(issues[n].comments) :
          /\ issues[n].comments[i].id \in UpdateIds(lastOp.seq)
          /\ Processed \in issues[n].comments[i].reactions
          /\ issues[n].comments[j].body.fmt # "json"
          /\ Processed \notin issues[n].comments[j].reactions

\* C8: a create that succeeds leaves no other active issue with the identity
\* label of its object.
C8_CreateKeepsUidUnique ==
    (lastOp.op = "create" /\ lastOp.res = "ok") => ActiveWithUid(lastOp.id) = {lastOp.n}

\* C9: right after a successful create the new issue is closed, carries
\* exactly the base and identity labels, has the data as body and one
\* initial_state comment with both reactions, and get returns the data.
C9_CreatePostcondition ==
    (lastOp.op = "create" /\ lastOp.res = "ok") =>
        LET i == issues[lastOp.n] IN
        /\ i.state = "closed"
        /\ i.labels = {BaseLabel, UidLabel(lastOp.id)}
        /\ i.body = Dumps(lastOp.data)
        /\ Len(i.comments) = 1
        /\ i.comments[1].body.fmt = "json"
        /\ i.comments[1].body.env.type = "initial_state"
        /\ i.comments[1].reactions = {Processed, InitialState}
        /\ get(lastOp.id).res = "ok"
        /\ get(lastOp.id).data = lastOp.data

\* C10: a successful update appends one envelope comment to the anchor and
\* opens it, changes neither its body nor its labels nor any other issue,
\* and a get right afterwards returns the last persisted body of the anchor.
C10_UpdateOnlyPosts ==
    [][(lastOp'.op = "update" /\ lastOp'.res = "ok") =>
          LET t == lastOp'.tgt
              old == issues[t].comments
              new == issues'[t].comments
          IN  /\ Len(issues') = Len(issues)
              /\ \A n \in Numbers \ {t} : issues'[n] = issues[n]
              /\ Len(new) = Len(old) + 1
              /\ SubSeq(new, 1, Len(old)) = old
              /\ new[Len(new)].body.fmt = "json"
              /\ new[Len(new)].body.env.data = lastOp'.data
              /\ new[Len(new)].reactions = {}
              /\ issues'[t].state = "open"
              /\ issues'[t].body = issues[t].body
              /\ issues'[t].labels = issues[t].labels
              /\ \A id \in ObjectIds : lastOp'.id = id =>
                    /\ get(id)'.res = "ok"
                    /\ get(id)'.data = Loads(issues[t].body)
                    /\ get(id)'.data = get(id).data]_vars

\* the comments of the issues of the last cycle that a cycle would consume now
Pending == UNION {UpdateIds(get_unprocessed_updates(k)) : k \in CycleIssues}

\* C11: when a cycle wrote the body and left some of the comments it applied
\* without the processed reaction, the next complete cycle applies exactly
\* those comments again and leaves the body a failure-free cycle would have
\* written.
C11_ReapplyAfterPartialAck ==
    [][(/\ ProcessDone
        /\ lastOp.data = lastOp.ideal
        /\ Pending # {}
        /\ Pending \subseteq UpdateIds(lastOp.seq)
        /\ lastOp'.op = "process" /\ lastOp'.res = "ok" /\ ~lastOp'.flag
        /\ lastOp'.tgt = lastOp.tgt)
       => /\ UpdateIds(lastOp'.seq) = Pending
          /\ Loads(issues'[lastOp.tgt].body) = lastOp.ideal]_vars

\* C14: for an alias issue a with ALIAS-TO:<n>, process(a) returns what
\* process(n) returns and leaves the tracker process(n) leaves, whatever the
\* alias listing and the tracker failures of the cycle.
C14_AliasProcessRedirects ==
    \A a \in Numbers :
        (HasLabel(a, AliasLabel) /\ alias_target(a) \in Numbers) =>
            \A cfail, mfail \in Failing(a) :
                \A order \in Orders(ProcessAliases(a)) :
                    process_cycle(a, order, cfail, mfail)
                        = process_cycle(alias_target(a), order, cfail, mfail)

MergeDone == probe.i = Len(probe.S) + Len(probe.dup)

IsSuffix(d, S) == Len(d) <= Len(S) /\ d = SubSeq(S, Len(S) - Len(d) + 1, Len(S))

\* C12 as stated: for every base state B, every sequence S of append and
\* replace envelopes and every dup whose elements are drawn from S, applying
\* S and then dup to B gives the state that applying S alone gives.
C12_ReplayOfAnyDrawnSequence ==
    MergeDone => probe.state = probe.once

\* C12, amended: applying S and then dup to B gives the state that applying
\* S alone gives whenever dup is a suffix of S (the envelopes consumed last,
\* in the order they were consumed, up to the whole of S).
C12_ReplayOfSuffix ==
    (MergeDone /\ IsSuffix(probe.dup, probe.S)) => probe.state = probe.once

C12_Witness ==
    /\ MergeDone /\ IsSuffix(probe.dup, probe.S)
    /\ Len(probe.S) = MaxLen /\ Len(probe.dup) = 2 /\ probe.dup[1] # probe.dup[2]
    /\ probe.S[1].mode = "append" /\ probe.dup[1].mode = "append" /\ probe.dup[2].mode = "append"
    /\ probe.state # probe.B /\ probe.state # probe.dup[2].data

\* the alias issues that carry the identity label of object_id and point at
\* another issue, which carries the canonical label
AliasIssuesOf(object_id) ==
    {a \in get_issues({BaseLabel, UidLabel(object_id), AliasLabel}, "all") :
        /\ alias_target(a) \in Numbers \ {a}
        /\ HasLabel(alias_target(a), CanonicalLabel)
        /\ ~HasLabel(a, CanonicalLabel)}

\* C13: an update through the id of an alias issue that points at a canonical
\* issue posts its comment on the canonical issue and reopens that issue; the
\* comments and the state of the alias issue stay as they were.
C13_UpdateThroughAliasGoesToCanonical ==
    [][\A id \in ObjectIds : \A a \in AliasIssuesOf(id) :
          (/\ lastOp'.op \in {"update", "canonical_update"}
           /\ lastOp'.id = id /\ lastOp'.res = "ok"
           /\ get_issues({BaseLabel, UidLabel(id)}, "all") = {a})
          => /\ Len(issues'[alias_target(a)].comments) = Len(issues[alias_target(a)].comments) + 1
             /\ issues'[alias_target(a)].state = "open"
             /\ issues'[a].comments = issues[a].comments
             /\ issues'[a].state = issues[a].state]_vars

\* C15: get on the id of an alias issue that points at a canonical anchor
\* returns the body of the canonical anchor as data and the id of the
\* canonical object as meta.object_id.
C15_GetThroughAliasReadsCanonical ==
    \A id \in ObjectIds : \A a \in AliasIssuesOf(id) :
        (get_issues({BaseLabel, UidLabel(id)}, "all") = {a}
         /\ get_object_id_from_labels(alias_target(a)) # "")
        => /\ get(id).res = "ok"
           /\ get(id).data = Loads(issues[alias_target(a)].body)
           /\ get(id).object_id = get_object_id_from_labels(alias_target(a))

\* the id one alias hop away from id, id itself where resolution stops: no
\* issue labelled UID:<id> carries an ALIAS-TO label, or the label names id
Hop(id) ==
    LET from == {n \in Numbers : HasLabel(n, UidLabel(id)) /\ \E l \in issues[n].labels : IsAliasTo(l)}
    IN  IF from = {} THEN id
        ELSE Suffix(CHOOSE l \in issues[Min(from)].labels : IsAliasTo(l))

RECURSIVE Follow(_, _)
Follow(id, k) == IF k = 0 \/ Hop(id) = id THEN id ELSE Follow(Hop(id), k - 1)

C17_NoOperationRaisesOnCycles ==
    /\ probe.kind \in {"get", "history"} => probe.res = "ok"
    /\ lastOp.op = "process" => lastOp.res = "ok"

\* the issues that carry the base label and the identity label of object_id
Anchors(object_id) == get_issues({BaseLabel, UidLabel(object_id)}, "all")

\* C18: delete(id) on an object that was created succeeds and leaves its
\* anchor issue closed, with the archived label and without the base label;
\* delete(id) for an id without an anchor raises ObjectNotFound and writes
\* nothing to the tracker.
C18_DeleteArchivesTheAnchor ==
    [][\A id \in ObjectIds :
          (lastOp'.op = "delete" /\ lastOp'.id = id) =>
              IF Anchors(id) # {}
              THEN /\ lastOp'.res = "ok"
                   /\ \E n \in Anchors(id) :
                         /\ issues'[n].state = "closed"
                         /\ ArchivedLabel \in issues'[n].labels
                         /\ BaseLabel \notin issues'[n].labels
              ELSE /\ lastOp'.res = "ObjectNotFound"
                   /\ issues' = issues]_vars

\* C19: every issue list_all returns an object from carries the base label,
\* exactly one UID label and none of archived, alias-object and
\* deprecated-object; an object is not listed after it was deleted, made an
\* alias of another object, or deprecated.
C19_ListAllShowsLiveObjectsOnly ==
    [][/\ \A n \in listed_issues' :
             /\ BaseLabel \in issues'[n].labels
             /\ Cardinality({l \in issues'[n].labels : l.k = "UID:"}) = 1
             /\ issues'[n].labels \cap {ArchivedLabel, AliasLabel, DeprecatedLabel} = {}
       /\ \A id \in ObjectIds :
             (lastOp'.id = id /\
                ((lastOp'.op = "delete" /\ Anchors(id) # {})
                 \/ (lastOp'.op \in {"create_alias", "canonical_create_alias", "deprecate"}
                     /\ lastOp'.res = "ok")))
             => id \notin list_all']_vars

\* the users a file names: the users of its owner tokens and the members of
\* the teams of its owner tokens, on the lines that are not comments
NamedIn(file) ==
    UNION {UNION {IF file.lines[i].owners[j].t = "user" THEN {file.lines[i].owners[j].name}
                  ELSE IF file.lines[i].owners[j].t = "team"
                       THEN team_members(file.lines[i].owners[j].name)
                  ELSE {} : j \in 1..Len(file.lines[i].owners)} : i \in 1..Len(file.lines)}

Existing(files) == {i \in 1..Len(files) : files[i].exists}

FirstExisting(files) == IF Existing(files) = {} THEN NoFile ELSE files[Min(Existing(files))]

\* C20: a username is authorized if and only if it is the login of the
\* repository owner or is named in the first CODEOWNERS file that exists
\* (.github/CODEOWNERS, docs/CODEOWNERS, CODEOWNERS, in that order); a
\* missing username is never authorized.
C20_AuthorizedIffOwnerOrFirstFile ==
    probe.called =>
        /\ probe.username = NoUser => ~probe.result
        /\ probe.username # NoUser =>
              (probe.result <=> (\/ probe.username = OwnerLogin
                                 \/ probe.username \in NamedIn(FirstExisting(probe.files))))

\* the ALIAS-TO labels of an issue
AliasToLabels(n) == {l \in issues[n].labels : IsAliasTo(l)}

\* C21: in every state reached through create, create_alias and the
\* deduplication operations, every issue that carries an ALIAS-TO label
\* carries alias-object and not canonical-object, carries exactly one
\* ALIAS-TO label, and the label names the number of an existing issue that
\* is not itself an alias.
C21_AliasLabelsWellFormed ==
    \A n \in Numbers :
        AliasToLabels(n) # {}
        => /\ HasLabel(n, AliasLabel)
           /\ ~HasLabel(n, CanonicalLabel)
           /\ Cardinality(AliasToLabels(n)) = 1
           /\ \A l \in AliasToLabels(n) :
                 /\ ParsesAsInt(l)
                 /\ l.n \in Numbers
                 /\ ~HasLabel(l.n, AliasLabel)
                 /\ AliasToLabels(l.n) = {}

\* both calls of process_updates have returned a result for the same issue
BothDone ==
    /\ \A p \in Processors : probe.proc[p].pc = "done" /\ probe.proc[p].res = "ok"
    /\ probe.proc[1].m = probe.proc[2].m
    /\ \A p \in Processors : probe.proc[p].canonical

\* the updates acknowledged since the first call began, on the issue worked
\* on and on its aliases, in the order of their timestamps
RECURSIVE updates_in(_, _)
updates_in(cs, ids) ==
    IF cs = << >> THEN << >>
    ELSE LET c == Head(cs)
         IN  (IF c.id \in ids /\ is_unprocessed_update([c EXCEPT !.reactions = {}])
              THEN << UpdateRec(c.id, c.body.env.ts, c.body.env.data, c.body.env.mode) >>
              ELSE << >>) \o updates_in(Tail(cs), ids)

RECURSIVE updates_of(_, _)
updates_of(ns, ids) ==
    IF ns = {} THEN << >>
    ELSE updates_in(issues[Min(ns)].comments, ids) \o updates_of(ns \ {Min(ns)}, ids)

AckedSince(m) ==
    StableSortByTs(updates_of({m} \cup find_aliases(m), AckedIds \ probe.acked0))

\* C22: when two calls of process_updates on the same canonical issue have
\* both returned, whatever the interleaving of their reads and writes with
\* each other and with update calls, the body of the issue is the body the
\* first call found with the updates acknowledged since then applied in
\* timestamp order, as after two calls one after the other: no acknowledged
\* update is missing from it.
C22_RacingCyclesAreBenign ==
    BothDone => Loads(issues[probe.proc[1].m].body) =
                    apply_all(probe.base, AckedSince(probe.proc[1].m))

\* the envelopes a replay applies, in order
Replayed == probe.S \o probe.dup

\* C23: applying an envelope a second time right after applying it changes
\* nothing: for every state B' = apply(u, B), apply(u, B') = B', in append
\* and in replace mode, also when the payload turns a scalar into an object
\* or an object into a scalar.
C23_ApplyTwiceIsApplyOnce ==
    [][(/\ probe.i >= 1
        /\ probe.i < Len(Replayed)
        /\ Replayed[probe.i + 1] = Replayed[probe.i])
       => probe'.state = probe.state]_vars

\* an append envelope was merged key by key into a base with an object
\* under the same key, then applied again
C23_Witness ==
    /\ probe.i = 2
    /\ Replayed[1] = Replayed[2]
    /\ Replayed[1].mode = "append"
    /\ probe.B = Obj("k" :> J1)
    /\ Replayed[1].data = Obj("k" :> K2)
    /\ probe.state = Obj("k" :> Obj(("j" :> Num(1)) @@ ("k" :> Num(2))))

\* r holds, for every key of u, the merge of the two values when both are
\* objects and the value of u otherwise, and for every other key the value
\* of b
RECURSIVE IsMerge(_, _, _)
IsMerge(r, b, u) ==
    /\ DOMAIN r = DOMAIN b \cup DOMAIN u
    /\ \A k \in DOMAIN r :
          IF k \notin DOMAIN u THEN r[k] = b[k]
          ELSE IF k \in DOMAIN b /\ IsObj(b[k]) /\ IsObj(u[k])
               THEN IsObj(r[k]) /\ IsMerge(r[k].f, b[k].f, u[k].f)
          ELSE r[k] = u[k]

\* C24: an envelope in append mode leaves a state that holds, for every key
\* of the payload, the recursive merge when both values are objects and the
\* payload's value otherwise, and the base's value for every other key; no
\* dictionary that existed before the merge (the base, the payloads) is
\* changed by it; an envelope in replace mode leaves the payload itself.
C24_MergeSemantics ==
    [][probe.i < Len(probe.envs) =>
         LET e == probe.envs[probe.i + 1]
             base == deref(probe.heap, probe.cur)
             update == deref(probe.heap, e.a)
             result == deref(probe'.heap, probe'.cur)
         IN  /\ e.mode = "append" =>
                   /\ IsMerge(result.f, base.f, update.f)
                   /\ result = Obj(_deep_merge(base.f, update.f))
             /\ e.mode = "replace" => result = update
             /\ \A a \in 1..Len(probe.heap) : probe'.heap[a] = probe.heap[a]]_vars

\* two appends on {k: {j: 1}}: {j: 1}, then {k: {k: 2}}, which is merged
\* into the object under k while j stays
C24_Witness ==
    /\ probe.i = 2
    /\ probe.envs[1].mode = "append" /\ probe.envs[2].mode = "append"
    /\ deref(probe.heap, probe.envs[2].a) = Obj("k" :> K2)
    /\ deref(probe.heap, probe.cur) =
          Obj(("j" :> Num(1)) @@ ("k" :> Obj(("j" :> Num(1)) @@ ("k" :> Num(2)))))

\* the issue a comment sits on
SourceIssue(c) == CHOOSE n \in Numbers : c \in CommentIds(n)

\* C25: of two updates applied by the same process cycle with equal
\* timestamps, the one with the smaller pair (source issue number, comment
\* id) is applied first, whatever the order of the alias listing.
C25_TiesBySourceAndCommentId ==
    ProcessDone =>
        \A i, j \in 1..Len(lastOp.seq) :
            (i < j /\ lastOp.seq[i].timestamp = lastOp.seq[j].timestamp)
            => \/ SourceIssue(lastOp.seq[i].comment_id) < SourceIssue(lastOp.seq[j].comment_id)
               \/ /\ SourceIssue(lastOp.seq[i].comment_id) = SourceIssue(lastOp.seq[j].comment_id)
                  /\ lastOp.seq[i].comment_id < lastOp.seq[j].comment_id

\* the update comments of the object a cycle worked on that carry a later
\* id (were posted later) and a later timestamp than the update u
LaterThan(u, tgt) ==
    {c \in UNION {SeqToSet(issues[n].comments) :
                    n \in {tgt} \cup (IF HasLabel(tgt, CanonicalLabel)
                                      THEN find_aliases(tgt) ELSE {})} :
        /\ c.id > u.comment_id
        /\ c.body.fmt = "json"
        /\ c.body.env.ts > u.timestamp}

\* C26: a process cycle never applies for the first time an update comment
\* c1 when an earlier cycle on the same object has already applied a comment
\* c2 that was posted after c1 and carries a later timestamp, also when c1
\* sits on an alias issue that an earlier cycle failed to read.
C26_NoOvertakingAcrossCycles ==
    [][(lastOp'.op = "process" /\ lastOp'.res = "ok") =>
          \A i \in 1..Len(lastOp'.seq) :
              applyCount[lastOp'.seq[i].comment_id] = 0
              => \A c2 \in LaterThan(lastOp'.seq[i], lastOp'.tgt) : applyCount[c2.id] = 0]_vars

\* C27: a process cycle on a canonical anchor neither applies nor
\* acknowledges a comment of an alias issue whose creator is not authorized,
\* and, when no tracker call fails, it applies every pending update of the
\* anchor and of the aliases whose creator is authorized.
C27_UnauthorizedAliasSkipped ==
    [][(/\ lastOp'.op = "process" /\ lastOp'.res = "ok"
        /\ HasLabel(lastOp'.tgt, CanonicalLabel))
       => /\ \A a \in find_aliases(lastOp'.tgt) :
                ~validate_issue_creator(issues[a])
                => /\ UpdateIds(lastOp'.seq) \cap CommentIds(a) = {}
                   /\ issues'[a].comments = issues[a].comments
          /\ ~lastOp'.flag =>
                \A n \in {lastOp'.tgt} \cup {a \in find_aliases(lastOp'.tgt) :
                                                validate_issue_creator(issues[a])} :
                    UpdateIds(get_unprocessed_updates(n)) \subseteq UpdateIds(lastOp'.seq)]_vars


\* the envelope marks its comment as one the system wrote, or as an initial
\* state: isSystem of the specification, or type initial_state
IsSystemEnvelope(e) ==
    e.type = "initial_state" \/ e.type \in SystemTypes \/ e.system

\* C28: a comment whose envelope type is initial_state or starts with
\* system_, or whose _meta.system is true, is never applied to a body: the
\* step that replays it leaves the state of the virtual merge and the body of
\* the process cycle as they were
C28_SystemCommentsNeverApplied ==
    [][(probe.kind = "system" /\ probe'.i = probe.i + 1
          /\ IsSystemEnvelope(probe.S[probe.i + 1]))
       => /\ probe'.virtual = probe.virtual
          /\ probe'.processed = probe.processed]_vars

\* the update comments process cycles have consumed for the object anchored
\* on issue n: those posted on n or on an issue labelled ALIAS-TO:<n>
ConsumedOn(n) ==
    {c \in AllComments :
        /\ applyCount[c.id] > 0
        /\ \E m \in Numbers : /\ c \in SeqToSet(issues[m].comments)
                              /\ (m = n \/ AliasToNum(n) \in issues[m].labels)}

\* C29: the version get reports for an object is one plus the number of
\* update comments process cycles have consumed for it: 1 after create, and
\* not raised by the initial-state comment or by pending, system or
\* unauthorized comments
C29_VersionCountsConsumed ==
    \A id \in ObjectIds :
        get(id).res = "ok" => get(id).version = 1 + Cardinality(ConsumedOn(get(id).n))

\* the issues carrying the base label and UID:<id>, and the anchor among
\* them: the one labelled canonical-object, else the smallest number
Carrying(id) == get_issues({BaseLabel, UidLabel(id)}, "all")

Anchor(id) ==
    LET canon == {n \in Carrying(id) : HasLabel(n, CanonicalLabel)}
    IN  IF canon # {} THEN Min(canon) ELSE Min(Carrying(id))

\* C30: when several issues carry the base label and UID:<id>, an update of
\* id that posts its envelope posts it on the anchor, which is the issue get
\* selects and reads the body from
C30_GetAndUpdateSelectSameAnchor ==
    [][(/\ lastOp'.op = "update" /\ lastOp'.res = "ok" /\ lastOp'.k = lastOp.k + 1
        /\ Cardinality(Carrying(lastOp'.id)) > 1)
       => /\ lastOp'.tgt = Anchor(lastOp'.id)
          /\ get_object_issue(lastOp'.id) = Anchor(lastOp'.id)
          /\ lastOp'.tgt = get(lastOp'.id).n]_vars

\* the issues of id that still serve as an anchor: carrying the base label
\* and UID:<id>, not archived, not deprecated and not marked as alias
LiveAnchors(id) ==
    {n \in Carrying(id) : /\ ~HasLabel(n, ArchivedLabel)
                          /\ ~HasLabel(n, DeprecatedLabel)
                          /\ ~HasLabel(n, AliasLabel)}

\* C31: after a successful deduplication of a uid that k >= 2 non-archived
\* issues carry, the issue with the smallest number is the single live
\* anchor, the report counts k - 1 processed duplicates, and the sweep of
\* find_duplicates no longer reports the uid
C31_DeduplicateLeavesOneAnchor ==
    [][\A id \in ObjectIds :
        (/\ lastOp'.op \in {"deduplicate", "mark_duplicates"} /\ lastOp'.res = "ok"
         /\ lastOp'.k = lastOp.k + 1 /\ lastOp'.id = id
         /\ find_duplicates(id) # {})
        => /\ LiveAnchors(id)' = {Min(find_duplicates(id))}
           /\ find_duplicates(id)' = {}
           /\ lastOp'.op = "deduplicate"
                 => lastOp'.n = Cardinality(find_duplicates(id)) - 1]_vars

\* C32: once deprecate has removed the loser's UID label and added
\* deprecated-object and MERGED-INTO:<winner>, a failure of one of the two
\* system comments does not fail it: it reports success and the labels stay
C32_DeprecateSurvivesCommentFailure ==
    [][(lastOp'.op = "deprecate" /\ lastOp'.flag /\ lastOp'.k = lastOp.k + 1)
       => /\ lastOp'.res = "ok"
          /\ DeprecatedLabel \in issues'[lastOp'.n].labels
          /\ UidLabel(lastOp'.id) \notin issues'[lastOp'.n].labels
          /\ \E t \in ObjectIds : MergedInto(t) \in issues'[lastOp'.n].labels]_vars

\* the id is already an alias: an issue carrying UID:<id> carries an
\* ALIAS-TO label
AlreadyAlias(id) ==
    \E n \in Numbers : /\ UidLabel(id) \in issues[n].labels
                       /\ \E l \in issues[n].labels : IsAliasTo(l)

\* C33: create_alias rejects a request whose source id is already an alias
\* and a request whose source or target object does not exist, and a
\* rejected request adds no label and no comment to any issue (a request
\* the tracker failed on after it was accepted is not a rejection)
C33_CreateAliasRejects ==
    [][(lastOp'.op \in {"create_alias", "canonical_create_alias"}
          /\ lastOp'.k = lastOp.k + 1)
       => /\ (lastOp'.res # "ok" /\ ~lastOp'.flag) => issues' = issues
          /\ lastOp'.res = "ok"
                => /\ ~AlreadyAlias(lastOp'.id)
                   /\ lastOp'.tgt \in Numbers
                   /\ lastOp'.op = "canonical_create_alias"
                         => \E n \in Numbers : UidLabel(lastOp'.id) \in issues[n].labels]_vars

\* the first n calls of the wrapped read all hit the rate limit
AllRateLimited(n) == \A i \in 1..n : probe.outcomes[i] = "rate_limit"

\* C34: the retry wrapper calls the wrapped read at most max_attempts times;
\* it returns the result of the first call that succeeds, makes another call
\* only after a rate-limit error, re-raises the rate-limit error when the
\* max_attempts-th call in a row fails with it, and lets any other exception
\* out at once
C34_RetryIsBounded ==
    probe.kind = "retry" =>
        /\ probe.calls <= probe.max_attempts
        /\ AllRateLimited(probe.calls - 1)
        /\ probe.res = "running" => probe.sleeps = probe.calls
        /\ (probe.res # "running" /\ probe.calls > 0) => probe.sleeps = probe.calls - 1
        /\ probe.res = "running" => AllRateLimited(probe.calls)
        /\ probe.res = "ok" => /\ probe.outcomes[probe.calls] = "ok"
                               /\ probe.value = probe.calls
        /\ probe.res = "Exception" => probe.outcomes[probe.calls] = "error"
        /\ probe.res = "RateLimitExceededException"
              => probe.calls = probe.max_attempts /\ AllRateLimited(probe.calls)
        /\ probe.res = "RuntimeError" => probe.max_attempts = 0
        /\ (probe.calls > 0 /\ probe.outcomes[probe.calls] # "rate_limit")
              => probe.res \in {"ok", "Exception"}
        /\ (probe.calls = probe.max_attempts /\ probe.calls > 0 /\ AllRateLimited(probe.calls))
              => probe.res = "RateLimitExceededException"

\* the third call in a row hit the rate limit and its error was re-raised
C34_Witness ==
    /\ probe.kind = "retry" /\ probe.res = "RateLimitExceededException"
    /\ probe.calls = MaxAttempts /\ probe.sleeps = MaxAttempts - 1

\* the decision for username when owner is the owner and codeowners the set
\* of the CODEOWNERS files
DecisionOn(owner, codeowners, username) ==
    username # NoUser /\ (username = owner \/ username \in codeowners)

NoCycleInProgress == \A p \in Processors : probe.proc[p].pc \in {"idle", "done"}

\* C36: whenever an anchor is closed and no process cycle is in progress,
\* no authorized update comment on it lacks the processed reaction, under
\* every interleaving of update and process calls
C36_ClosedMeansQuiescent ==
    (probe.kind = "race" /\ NoCycleInProgress)
       => \A n \in Numbers :
             (issues[n].state = "closed" /\ ~HasLabel(n, AliasLabel))
                => get_unprocessed_updates(n) = << >>

\* C37: of two update calls made at once for one object on a closed anchor
\* at most one posts its envelope and the other raises ConcurrentUpdate: no
\* issue ever holds two unprocessed envelopes accepted by update, and when
\* no cycle has consumed an update two calls for one id are not both
\* accepted
C37_OneUpdateAtATime ==
    probe.kind = "updates" =>
        /\ \A n \in Numbers : Len(get_unprocessed_updates(n)) <= 1
        /\ \A u, v \in UpdateCallers :
              (/\ u # v /\ probe.call[u].id = probe.call[v].id
               /\ probe.call[u].pc \in {"posted", "done"} /\ probe.call[u].res = "ok"
               /\ probe.call[v].pc \in {"posted", "done"} /\ probe.call[v].res = "ok")
                 => \E c \in 1..MaxComments : applyCount[c] > 0

\* C38: get is read-only: a get of the base store and a get of the
\* canonicalizing store leave every issue's body, state, labels, comments
\* and reactions as they were
C38_GetIsReadOnly ==
    [][(\/ lastOp'.op = "canonical_get" /\ lastOp'.k = lastOp.k + 1
        \/ probe'.kind = "get" /\ probe' # probe)
       => issues' = issues]_vars

\* the alias edges: issue n carries ALIAS-TO:<m>, or ALIAS-TO:<id> and
\* issue m carries UID:<id>
AliasEdge(n, m) ==
    \/ AliasToNum(m) \in issues[n].labels
    \/ \E l \in issues[n].labels : /\ IsAliasTo(l) /\ ~ParsesAsInt(l)
                                   /\ UidLabel(l.id) \in issues[m].labels

\* the issues reached from the issues of S along at most k alias edges
RECURSIVE AliasReach(_, _)
AliasReach(S, k) ==
    IF k = 0 THEN S
    ELSE LET next == {m \in Numbers : \E n \in S : AliasEdge(n, m)}
         IN  next \cup AliasReach(next, k - 1)

\* C39: the alias graph is acyclic in every reachable state: create_alias
\* never makes an object an alias of itself and never adds an edge that
\* closes a cycle
C39_AliasGraphAcyclic ==
    \A n \in Numbers :
        n \notin {m \in Numbers : \E x \in AliasReach({n}, Len(issues)) : AliasEdge(x, m)}
          /\ ~AliasEdge(n, n)

\* C40: after update_snapshot has run on a snapshot taken earlier, with
\* every update processed both times, the file's objects map is a map a
\* fresh snapshot would produce at that moment: the entries of objects
\* deleted in between are gone.
C40_IncrementalEqualsFresh ==
    (/\ probe.kind = "snapshot"
     /\ lastOp.op = "update_snapshot" /\ lastOp.res = "ok"
     /\ probe.file.quiet)
    => probe.file.objects \in ObjectMaps(listed_issues)

====
